---- MODULE Spec2Model ----
(***************************************************************************)
(* Ledger and interest-settlement engine of koishi-plugin-monetary-bank    *)
(* (src/src/index.ts), with config.enableInterest on.                      *)
(*                                                                         *)
(* State: the monetary_bank_int table (deposit records), the external      *)
(* monetary table (cash), the clock in whole days, and the position and    *)
(* locals of every running async handler.  Every action is one awaited     *)
(* database call of the source plus the synchronous code that follows it   *)
(* up to the next await.                                                   *)
(*                                                                         *)
(* Amounts are integers (commands parse them with parseInt).  Rates are    *)
(* kept in hundredths of a percent so that 0.25 % is 25 and 4.35 % is 435; *)
(* Math.floor(amount * rate / 100) is then (amount * rate) \div 10000.     *)
(* Dates are day numbers: every settlementDate is a local midnight.        *)
(***************************************************************************)
EXTENDS Integers, Sequences, FiniteSets, TLC

VARIABLES
    now,        \* the clock, in days (new Date() truncated to midnight)
    bank,       \* table monetary_bank_int: function id -> row
    nextId,     \* the table's auto-increment counter
    monetary,   \* table monetary: function <<uid, currency>> -> value
    config,     \* the plugin configuration (demandInterest)
    proc,       \* per handler: program counter and locals
    prev,       \* the deposit, extension request or cancellation, or sweep
                \* that returned last, if no other operation has returned
                \* since
    ops,        \* number of operations started so far
    faults,     \* number of database writes that may still throw
    mode        \* "seq": handlers run one at a time; "conc": they interleave

vars == <<now, bank, nextId, monetary, config, proc, prev, ops, faults, mode>>

----------------------------------------------------------------------------
(* Bounds of the model *)

MaxOps == 2          \* operations started in one behaviour
MaxDay == 1          \* last day the clock reaches

Users == {1, 2}
Currencies == {"coin"}   \* config.defaultCurrency; rows of "gem" exist too
AmountChoices == {-1, 0, 40, 120}

NoRate == -1         \* nextRate: null
NoCycle == "none"    \* nextCycle: null
Null == -1           \* a null balance (number | null)

(* Scale of the rate representation: rate 0.25 (%) is stored as 25 *)
RateScale == 100

(* Config.fixedInterest: the default plans of the schema *)
fixedInterest == <<
    [name |-> "week",  rate |-> 435,  cycle |-> "week"],
    [name |-> "month", rate |-> 5000, cycle |-> "month"] >>

(* Config.demandInterest values the model starts from *)
ConfigChoices == {
    [enabled |-> TRUE,  rate |-> 25, cycle |-> "day"],
    [enabled |-> FALSE, rate |-> 25, cycle |-> "day"],
    [enabled |-> TRUE,  rate |-> 0,  cycle |-> "week"] }

----------------------------------------------------------------------------
(* Pure helpers *)

(* faulty variant: the whole cash balance is taken *)
MinLeft(a, b) == a

(* Math.min *)
Min(a, b) == IF a < b THEN a ELSE b

RECURSIVE SumSeq(_)
SumSeq(s) == IF s = <<>> THEN 0 ELSE Head(s) + SumSeq(Tail(s))

RECURSIVE SetToSeq(_)
(* the elements of a finite set of integers in ascending order *)
SetToSeq(S) ==
    IF S = {} THEN <<>>
    ELSE LET m == CHOOSE x \in S : \A y \in S : x <= y
         IN <<m>> \o SetToSeq(S \ {m})

(* faulty variant: a month is 31 days *)
CycleDaysMonth31(cycle) ==
    CASE cycle = "day" -> 1
      [] cycle = "week" -> 7
      [] cycle = "month" -> 31
      [] OTHER -> 0

(* calculateNextSettlementDate: today's midnight, +1 day when isNew, plus
   1 / 7 / 30 days for day / week / month *)
CycleDays(cycle) ==
    CASE cycle = "day" -> 1
      [] cycle = "week" -> 7
      [] cycle = "month" -> 30
      [] OTHER -> 0

(* faulty variant: the T+1 day is added whether or not the deposit is new *)
calculateNextSettlementDateGrace(cycle, isNew) ==
    now + 1 + CycleDays(cycle)

(* faulty variant: the T+1 day of a new deposit is left out *)
calculateNextSettlementDateNoGrace(cycle, isNew) ==
    now + CycleDays(cycle)

calculateNextSettlementDate(cycle, isNew) ==
    now + (IF isNew THEN 1 ELSE 0) + CycleDays(cycle)

(* A row of monetary_bank_int as database.create stores it *)
NewRow(uid, currency, amount, type, rate, cycle, settlementDate) ==
    [uid |-> uid, currency |-> currency, amount |-> amount, type |-> type,
     rate |-> rate, cycle |-> cycle, settlementDate |-> settlementDate,
     extendRequested |-> FALSE, nextRate |-> NoRate, nextCycle |-> NoCycle]

(* database.create / remove / set on monetary_bank_int *)
DbCreate(b, id, row) == [i \in DOMAIN b \cup {id} |-> IF i = id THEN row ELSE b[i]]
DbRemove(b, id) == [i \in DOMAIN b \ {id} |-> b[i]]
DbSetAmount(b, id, amt) ==
    IF id \in DOMAIN b THEN [b EXCEPT ![id].amount = amt] ELSE b

(* faulty variant: a row equal to what is left is set to 0, not removed *)
ConsumesWholeStrict(amount, left) == amount < left

(* record.amount <= remaining: the row is removed, otherwise reduced *)
ConsumesWhole(amount, left) == amount <= left

(* faulty variant: the query is { uid, currency }, without the type *)
IdsOfAnyType(b, uid, currency, type) ==
    {i \in DOMAIN b : b[i].uid = uid /\ b[i].currency = currency}

(* The amount row id holds in table b, 0 when there is no such row *)
Held(b, id) == IF id \in DOMAIN b THEN b[id].amount ELSE 0

(* Ids of the rows matching { uid, currency, type } *)
IdsOf(b, uid, currency, type) ==
    {i \in DOMAIN b : b[i].uid = uid /\ b[i].currency = currency /\ b[i].type = type}

RECURSIVE SumAmount(_, _)
SumAmount(b, S) ==
    IF S = {} THEN 0
    ELSE LET i == CHOOSE x \in S : TRUE IN b[i].amount + SumAmount(b, S \ {i})

(* faulty variant: the type test is lost and every row counts as demand *)
getBankBalanceNoType(b, uid, currency) ==
    LET demand == SumAmount(b, IdsOf(b, uid, currency, "demand")
                                 \cup IdsOf(b, uid, currency, "fixed"))
    IN [total |-> demand, demand |-> demand, fixed |-> 0]

(* faulty variant: fixed rows are added to demand as well *)
getBankBalanceFixedAsDemand(b, uid, currency) ==
    LET demand == SumAmount(b, IdsOf(b, uid, currency, "demand"))
        fixed == SumAmount(b, IdsOf(b, uid, currency, "fixed"))
    IN [total |-> demand + fixed, demand |-> demand + fixed, fixed |-> fixed]

(* faulty variant: the query is { uid } only, rows of every currency count *)
getBankBalanceAnyCurrency(b, uid, currency) ==
    LET demand == SumAmount(b, {i \in DOMAIN b : b[i].uid = uid
                                                 /\ b[i].type = "demand"})
        fixed == SumAmount(b, {i \in DOMAIN b : b[i].uid = uid
                                                /\ b[i].type = "fixed"})
    IN [total |-> demand + fixed, demand |-> demand, fixed |-> fixed]

(* getBankBalance: sums amount over the rows of { uid, currency } by type *)
getBankBalance(b, uid, currency) ==
    LET demand == SumAmount(b, IdsOf(b, uid, currency, "demand"))
        fixed == SumAmount(b, IdsOf(b, uid, currency, "fixed"))
    IN [total |-> demand + fixed, demand |-> demand, fixed |-> fixed]

(* findMonetaryRecord: the user's rows; the one of the currency, or else
   recs[0]; NoEntry when the user has no row *)
NoEntry == <<0, "none">>
UserRows(m, uid) == {k \in DOMAIN m : k[1] = uid}
findMonetaryRecord(m, uid, currency) ==
    IF UserRows(m, uid) = {} THEN NoEntry
    ELSE IF <<uid, currency>> \in DOMAIN m THEN <<uid, currency>>
    ELSE CHOOSE k \in UserRows(m, uid) : TRUE

(* getMonetaryBalance: the value of that row, or null *)
getMonetaryBalance(m, uid, currency) ==
    LET e == findMonetaryRecord(m, uid, currency)
    IN IF e = NoEntry THEN Null ELSE m[e]

(* faulty variant: the new row is created with a balance *)
createMonetaryUserCredit(m, uid, currency) ==
    [k \in DOMAIN m \cup {<<uid, currency>>} |->
        IF k = <<uid, currency>> /\ k \notin DOMAIN m THEN 1 ELSE m[k]]

(* createMonetaryUser: database.create('monetary', {uid, currency, value: 0}) *)
createMonetaryUser(m, uid, currency) ==
    [k \in DOMAIN m \cup {<<uid, currency>>} |->
        IF k = <<uid, currency>> /\ k \notin DOMAIN m THEN 0 ELSE m[k]]

(* database.set('monetary', keyQuery, {value: newVal}): keyQuery is { uid },
   so every row of the user is written *)
SetMonetary(m, uid, newVal) ==
    [k \in DOMAIN m |-> IF k[1] = uid THEN newVal ELSE m[k]]

----------------------------------------------------------------------------
(* Handlers *)

Sessions == DOMAIN proc \ {"sweep"}

NoRecord == [id |-> 0, row |-> NewRow(0, "none", 0, "none", 0, "none", 0)]

Idle == [pc |-> "idle", op |-> "none", uid |-> 0, currency |-> "none",
         amount |-> 0, plan |-> 0, cash |-> 0, recs |-> <<>>, idx |-> 0,
         remaining |-> 0, fromCash |-> 0, fromDemand |-> 0, toDeduct |-> 0,
         cmDelta |-> 0, cmCur |-> 0, ret |-> "none",
         today |-> 0, groups |-> <<>>, gi |-> 0,
         record |-> NoRecord, before |-> <<>>, removed |-> 0, debited |-> 0,
         newCash |-> Null, newBalance |-> [total |-> 0, demand |-> 0, fixed |-> 0],
         success |-> FALSE, error |-> "none",
         pre |-> [bank |-> <<>>, monetary |-> <<>>, day |-> 0]]

NoPrev == [op |-> "none", uid |-> 0, currency |-> "none", amount |-> 0,
           success |-> FALSE, cash |-> 0, total |-> 0, day |-> 0,
           record |-> NoRecord]

AllIdle == \A q \in DOMAIN proc : proc[q].pc = "idle"

(* A handler may start when the operation budget allows it and, in
   sequential mode, when no other handler is running *)
CanStart(p) ==
    /\ proc[p].pc = "idle"
    /\ ops < MaxOps
    /\ mode = "seq" => AllIdle

(* Whether the database write of this step throws *)
Throws == IF faults > 0 THEN {FALSE, TRUE} ELSE {FALSE}
Spend(f) == faults' = IF f THEN faults - 1 ELSE faults

Begin(p, op, uid, currency, amount, plan) ==
    [Idle EXCEPT !.op = op, !.uid = uid, !.currency = currency,
                 !.amount = amount, !.plan = plan,
                 !.pre = [bank |-> bank, monetary |-> monetary, day |-> now]]

Fail(l, error) == [l EXCEPT !.pc = "done", !.success = FALSE, !.error = error]

Set(p, l) == proc' = [proc EXCEPT ![p] = l]


(* Balances as the properties read them *)
Cash(m, uid, currency) == getMonetaryBalance(m, uid, currency)

(* The user's rows of one kind and the sum of their amounts, taken from the
   table itself *)
RowsOfKind(b, uid, currency, kind) ==
    {i \in DOMAIN b : /\ b[i].uid = uid
                      /\ b[i].currency = currency
                      /\ b[i].type = kind}

RECURSIVE Principal(_, _)
Principal(b, S) ==
    IF S = {} THEN 0
    ELSE LET i == CHOOSE x \in S : TRUE IN b[i].amount + Principal(b, S \ {i})

DemandIds(b, uid, currency) == RowsOfKind(b, uid, currency, "demand")
DemandTotal(b, uid, currency) == Principal(b, DemandIds(b, uid, currency))
FixedTotal(b, uid, currency) == Principal(b, RowsOfKind(b, uid, currency, "fixed"))
BankTotal(b, uid, currency) ==
    DemandTotal(b, uid, currency) + FixedTotal(b, uid, currency)

(* The summary Return leaves in prev *)
Summary(l) ==
    [op |-> l.op, uid |-> l.uid, currency |-> l.currency, amount |-> l.amount,
     success |-> l.success,
     cash |-> Cash(l.pre.monetary, l.uid, l.currency),
     total |-> BankTotal(l.pre.bank, l.uid, l.currency),
     day |-> l.pre.day,
     record |-> l.record]

(* The snapshot a select ... orderBy('settlementDate', 'asc') returns: the
   matching rows with their ids, ascending by settlementDate; rows of equal
   settlementDate come in an order the database chooses *)
Snap(b, i) == [id |-> i, row |-> b[i]]

(* faulty variant: orderBy('settlementDate', 'desc') *)
OrderedSelectsDesc(b, S) ==
    LET n == Cardinality(S)
    IN {[k \in 1..n |-> Snap(b, s[k])] :
          s \in {t \in [1..n -> S] :
                   /\ \A x, y \in 1..n : x # y => t[x] # t[y]
                   /\ \A x, y \in 1..n :
                        x < y => b[t[x]].settlementDate >= b[t[y]].settlementDate}}

OrderedSelects(b, S) ==
    LET n == Cardinality(S)
    IN {[k \in 1..n |-> Snap(b, s[k])] :
          s \in {t \in [1..n -> S] :
                   /\ \A x, y \in 1..n : x # y => t[x] # t[y]
                   /\ \A x, y \in 1..n :
                        x < y => b[t[x]].settlementDate <= b[t[y]].settlementDate}}

(* database.get / select without orderBy: the rows in primary-key order *)
PlainSelect(b, S) ==
    LET ids == SetToSeq(S) IN [k \in 1..Len(ids) |-> Snap(b, ids[k])]

----------------------------------------------------------------------------
(* changeMonetary(ctx, uid, currency, delta), index.ts 416-445.  The caller
   continues at l.ret with l.newCash the new balance, or Null for failure *)

CallChange(l, delta, ret) ==
    [l EXCEPT !.pc = "cm_find", !.cmDelta = delta, !.ret = ret]

(* faulty variant: no balance guard *)
OverdrawsNever(current, delta) == FALSE

(* newVal = current + delta; if (newVal < 0) return null *)
Overdraws(current, delta) == current + delta < 0

(* findMonetaryRecord, then the balance guard *)
ChangeFind(p) ==
    /\ proc[p].pc = "cm_find"
    /\ LET l == proc[p]
           e == findMonetaryRecord(monetary, l.uid, l.currency)
       IN IF e = NoEntry
          THEN Set(p, [l EXCEPT !.pc = "cm_createUser"])
          ELSE IF Overdraws(monetary[e], l.cmDelta)
               THEN Set(p, [l EXCEPT !.pc = l.ret, !.newCash = Null])
               ELSE Set(p, [l EXCEPT !.pc = "cm_set", !.cmCur = monetary[e]])
    /\ UNCHANGED <<now, bank, nextId, monetary, config, prev, ops, faults, mode>>

(* no row: createMonetaryUser, then the query is repeated *)
ChangeCreateUser(p) ==
    /\ proc[p].pc = "cm_createUser"
    /\ \E f \in Throws :
        /\ Spend(f)
        /\ LET l == proc[p]
           IN IF f
              THEN /\ Set(p, [l EXCEPT !.pc = l.ret, !.newCash = Null])
                   /\ UNCHANGED monetary
              ELSE /\ Set(p, [l EXCEPT !.pc = "cm_find"])
                   /\ monetary' = createMonetaryUser(monetary, l.uid, l.currency)
    /\ UNCHANGED <<now, bank, nextId, config, prev, ops, mode>>

(* database.set('monetary', keyQuery, { [valueField]: newVal }).
   l.debited adds up by how much the writes of this handler lowered the
   stored balance of (uid, currency). *)
ChangeSet(p) ==
    /\ proc[p].pc = "cm_set"
    /\ \E f \in Throws :
        /\ Spend(f)
        /\ LET l == proc[p]
               newVal == l.cmCur + l.cmDelta
           IN IF f
              THEN /\ Set(p, [l EXCEPT !.pc = l.ret, !.newCash = Null])
                   /\ UNCHANGED monetary
              ELSE /\ Set(p, [l EXCEPT !.pc = l.ret, !.newCash = newVal,
                                 !.debited = l.debited
                                   + (getMonetaryBalance(monetary, l.uid, l.currency)
                                      - newVal)])
                   /\ monetary' = SetMonetary(monetary, l.uid, newVal)
    /\ UNCHANGED <<now, bank, nextId, config, prev, ops, mode>>

----------------------------------------------------------------------------
(* MonetaryBankAPI.deposit, index.ts 131-178 *)

(* The rate and cycle deposit writes: demandConfig.rate || 0.25 and
   demandConfig.cycle || 'day' *)
DepositRate == IF config.rate = 0 THEN 25 ELSE config.rate
DepositCycle == config.cycle

DepositStart(p, uid, currency, amount) ==
    /\ CanStart(p)
    /\ ops' = ops + 1
    /\ LET l == Begin(p, "deposit", uid, currency, amount, 0)
           cash == getMonetaryBalance(monetary, uid, currency)
       IN IF amount <= 0
          THEN Set(p, Fail(l, "InvalidAmount"))
          ELSE IF cash = Null
               THEN Set(p, [l EXCEPT !.pc = "d_createUser"])
               ELSE IF cash < amount
                    THEN Set(p, Fail([l EXCEPT !.cash = cash], "InsufficientFunds"))
                    ELSE Set(p, CallChange([l EXCEPT !.cash = cash], -amount, "d_create"))
    /\ UNCHANGED <<now, bank, nextId, monetary, config, prev, faults, mode>>

(* cash === null: createMonetaryUser, cash = 0, then the funds check *)
DepositCreateUser(p) ==
    /\ proc[p].pc = "d_createUser"
    /\ \E f \in Throws :
        /\ Spend(f)
        /\ LET l == proc[p]
           IN IF f
              THEN /\ Set(p, Fail(l, "AccountUnavailable"))
                   /\ UNCHANGED monetary
              ELSE /\ monetary' = createMonetaryUser(monetary, l.uid, l.currency)
                   /\ IF 0 < l.amount
                      THEN Set(p, Fail(l, "InsufficientFunds"))
                      ELSE Set(p, CallChange(l, -l.amount, "d_create"))
    /\ UNCHANGED <<now, bank, nextId, config, prev, ops, mode>>

(* after changeMonetary: the demand row is created *)
DepositCreate(p) ==
    /\ proc[p].pc = "d_create"
    /\ \E f \in Throws :
        /\ LET l == proc[p]
               row == NewRow(l.uid, l.currency, l.amount, "demand", DepositRate,
                             DepositCycle,
                             calculateNextSettlementDate(DepositCycle, TRUE))
           IN IF l.newCash = Null
              THEN /\ Set(p, Fail(l, "DebitFailed"))
                   /\ UNCHANGED <<bank, nextId, faults>>
              ELSE IF f
                   THEN /\ Set(p, Fail(l, "PersistenceFailure"))
                        /\ Spend(f)
                        /\ UNCHANGED <<bank, nextId>>
                   ELSE /\ Set(p, [l EXCEPT !.pc = "d_balance"])
                        /\ bank' = DbCreate(bank, nextId, row)
                        /\ nextId' = nextId + 1
                        /\ UNCHANGED faults
    /\ UNCHANGED <<now, monetary, config, prev, ops, mode>>

DepositBalance(p) ==
    /\ proc[p].pc = "d_balance"
    /\ Set(p, [proc[p] EXCEPT !.pc = "done", !.success = TRUE,
                 !.newBalance = getBankBalance(bank, proc[p].uid, proc[p].currency)])
    /\ UNCHANGED <<now, bank, nextId, monetary, config, prev, ops, faults, mode>>

----------------------------------------------------------------------------
(* MonetaryBankAPI.withdraw, index.ts 187-235 *)

(* faulty variant: the cash credit is what is left of remaining, not amount *)
WithdrawNextRemaining(l) ==
    IF l.idx > Len(l.recs) \/ l.remaining <= 0
    THEN CallChange(l, l.remaining, "w_credit")
    ELSE [l EXCEPT !.pc = "w_loop"]

(* The for loop's exit test: past the last row, or remaining <= 0; then
   changeMonetary(+amount) is called *)
WithdrawNext(l) ==
    IF l.idx > Len(l.recs) \/ l.remaining <= 0
    THEN CallChange(l, l.amount, "w_credit")
    ELSE [l EXCEPT !.pc = "w_loop"]

WithdrawStart(p, uid, currency, amount) ==
    /\ CanStart(p)
    /\ ops' = ops + 1
    /\ LET l == Begin(p, "withdraw", uid, currency, amount, 0)
           balance == getBankBalance(bank, uid, currency)
       IN IF amount <= 0
          THEN Set(p, Fail(l, "InvalidAmount"))
          ELSE IF balance.demand < amount
               THEN Set(p, Fail(l, "InsufficientDemandFunds"))
               ELSE Set(p, [l EXCEPT !.pc = "w_select", !.remaining = amount])
    /\ UNCHANGED <<now, bank, nextId, monetary, config, prev, faults, mode>>

WithdrawSelect(p) ==
    /\ proc[p].pc = "w_select"
    /\ LET l == proc[p]
       IN \E recs \in OrderedSelects(bank, IdsOf(bank, l.uid, l.currency, "demand")) :
            Set(p, WithdrawNext([l EXCEPT !.recs = recs, !.idx = 1]))
    /\ UNCHANGED <<now, bank, nextId, monetary, config, prev, ops, faults, mode>>

(* One iteration: remove the row when record.amount <= remaining, else set
   its amount to record.amount - remaining.  l.removed adds up by how much
   the writes of this handler lowered the amounts stored in the table. *)
WithdrawLoop(p) ==
    /\ proc[p].pc = "w_loop"
    /\ \E f \in Throws :
        /\ Spend(f)
        /\ LET l == proc[p]
               record == l.recs[l.idx]
           IN IF f
              THEN /\ Set(p, Fail(l, "PersistenceFailure"))
                   /\ UNCHANGED bank
              ELSE IF ConsumesWhole(record.row.amount, l.remaining)
                   THEN /\ bank' = DbRemove(bank, record.id)
                        /\ Set(p, WithdrawNext([l EXCEPT !.idx = l.idx + 1,
                                 !.remaining = l.remaining - record.row.amount,
                                 !.removed = l.removed + Held(bank, record.id)]))
                   ELSE /\ bank' = DbSetAmount(bank, record.id,
                                               record.row.amount - l.remaining)
                        /\ Set(p, WithdrawNext([l EXCEPT !.idx = l.idx + 1,
                                 !.remaining = 0,
                                 !.removed = l.removed + Held(bank, record.id)
                                     - Held(DbSetAmount(bank, record.id,
                                              record.row.amount - l.remaining),
                                            record.id)]))
    /\ UNCHANGED <<now, nextId, monetary, config, prev, ops, mode>>

(* after changeMonetary *)
WithdrawCredit(p) ==
    /\ proc[p].pc = "w_credit"
    /\ LET l == proc[p]
       IN IF l.newCash = Null
          THEN Set(p, Fail(l, "CreditFailed"))
          ELSE Set(p, [l EXCEPT !.pc = "done", !.success = TRUE,
                         !.newBalance = getBankBalance(bank, l.uid, l.currency)])
    /\ UNCHANGED <<now, bank, nextId, monetary, config, prev, ops, faults, mode>>


----------------------------------------------------------------------------
(* The bank.fixed command, index.ts 968-1114 (enableInterest is on).  The
   plan number and the amount are the answers to its prompts. *)

FixedNext(l) ==
    IF l.idx > Len(l.recs) \/ l.toDeduct <= 0
    THEN [l EXCEPT !.pc = "f_create"]
    ELSE [l EXCEPT !.pc = "f_loop"]

(* amount parsed and checked; cash = getMonetaryBalance(...) || 0 *)
FixedStart(p, uid, currency, plan, amount) ==
    /\ CanStart(p)
    /\ ops' = ops + 1
    /\ LET l == Begin(p, "fixed", uid, currency, amount, plan)
           cash == getMonetaryBalance(monetary, uid, currency)
       IN IF amount <= 0
          THEN Set(p, Fail(l, "InvalidAmount"))
          ELSE Set(p, [l EXCEPT !.pc = "f_funds",
                                !.cash = IF cash = Null THEN 0 ELSE cash])
    /\ UNCHANGED <<now, bank, nextId, monetary, config, prev, faults, mode>>

(* faulty variant: the fixed principal counts as available *)
totalAvailableWithFixed(cash, balance) == cash + balance.total

(* const totalAvailable = cash + balance.demand *)
totalAvailable(cash, balance) == cash + balance.demand

(* balance = getBankBalance(...); totalAvailable < amount returns *)
FixedFunds(p) ==
    /\ proc[p].pc = "f_funds"
    /\ LET l == proc[p]
           balance == getBankBalance(bank, l.uid, l.currency)
       IN IF totalAvailable(l.cash, balance) < l.amount
          THEN Set(p, Fail(l, "InsufficientFunds"))
          ELSE Set(p, [l EXCEPT !.pc = "f_confirm"])
    /\ UNCHANGED <<now, bank, nextId, monetary, config, prev, ops, faults, mode>>

(* the confirmation prompt; then fromCash = min(cash, remaining) is taken
   from the cash read before the prompt *)
FixedConfirm(p) ==
    /\ proc[p].pc = "f_confirm"
    /\ \E yes \in BOOLEAN :
        LET l == proc[p]
            fromCash == Min(l.cash, l.amount)
        IN IF ~yes
           THEN Set(p, Fail(l, "Cancelled"))
           ELSE IF l.cash > 0
                THEN Set(p, CallChange([l EXCEPT !.fromCash = fromCash,
                                                 !.remaining = l.amount - fromCash],
                                       -fromCash, "f_afterCash"))
                ELSE Set(p, [l EXCEPT !.pc = "f_select", !.remaining = l.amount])
    /\ UNCHANGED <<now, bank, nextId, monetary, config, prev, ops, faults, mode>>

(* after changeMonetary(-fromCash) *)
FixedAfterCash(p) ==
    /\ proc[p].pc = "f_afterCash"
    /\ LET l == proc[p]
       IN IF l.newCash = Null
          THEN Set(p, Fail(l, "DebitFailed"))
          ELSE IF l.remaining > 0
               THEN Set(p, [l EXCEPT !.pc = "f_select"])
               ELSE Set(p, [l EXCEPT !.pc = "f_create"])
    /\ UNCHANGED <<now, bank, nextId, monetary, config, prev, ops, faults, mode>>

(* remaining > 0: fromDemand = remaining, the demand rows are selected *)
FixedSelect(p) ==
    /\ proc[p].pc = "f_select"
    /\ LET l == proc[p]
       IN \E recs \in OrderedSelects(bank, IdsOf(bank, l.uid, l.currency, "demand")) :
            Set(p, FixedNext([l EXCEPT !.recs = recs, !.idx = 1,
                                       !.fromDemand = l.remaining,
                                       !.toDeduct = l.remaining]))
    /\ UNCHANGED <<now, bank, nextId, monetary, config, prev, ops, faults, mode>>

FixedLoop(p) ==
    /\ proc[p].pc = "f_loop"
    /\ \E f \in Throws :
        /\ Spend(f)
        /\ LET l == proc[p]
               record == l.recs[l.idx]
           IN IF f
              THEN /\ Set(p, Fail(l, "PersistenceFailure"))
                   /\ UNCHANGED bank
              ELSE IF ConsumesWhole(record.row.amount, l.toDeduct)
                   THEN /\ bank' = DbRemove(bank, record.id)
                        /\ Set(p, FixedNext([l EXCEPT !.idx = l.idx + 1,
                                 !.toDeduct = l.toDeduct - record.row.amount,
                                 !.removed = l.removed + Held(bank, record.id)]))
                   ELSE /\ bank' = DbSetAmount(bank, record.id,
                                               record.row.amount - l.toDeduct)
                        /\ Set(p, FixedNext([l EXCEPT !.idx = l.idx + 1,
                                 !.toDeduct = 0,
                                 !.removed = l.removed + Held(bank, record.id)
                                     - Held(DbSetAmount(bank, record.id,
                                              record.row.amount - l.toDeduct),
                                            record.id)]))
    /\ UNCHANGED <<now, nextId, monetary, config, prev, ops, mode>>

(* the fixed row is created *)
FixedCreate(p) ==
    /\ proc[p].pc = "f_create"
    /\ \E f \in Throws :
        /\ Spend(f)
        /\ LET l == proc[p]
               selectedPlan == fixedInterest[l.plan]
               row == NewRow(l.uid, l.currency, l.amount, "fixed",
                             selectedPlan.rate, selectedPlan.cycle,
                             calculateNextSettlementDate(selectedPlan.cycle, TRUE))
           IN IF f
              THEN /\ Set(p, Fail(l, "PersistenceFailure"))
                   /\ UNCHANGED <<bank, nextId>>
              ELSE /\ Set(p, [l EXCEPT !.pc = "f_result"])
                   /\ bank' = DbCreate(bank, nextId, row)
                   /\ nextId' = nextId + 1
    /\ UNCHANGED <<now, monetary, config, prev, ops, mode>>

(* newBalance and newCash are read for the reply *)
FixedResult(p) ==
    /\ proc[p].pc = "f_result"
    /\ LET l == proc[p]
           cash == getMonetaryBalance(monetary, l.uid, l.currency)
       IN Set(p, [l EXCEPT !.pc = "done", !.success = TRUE,
                    !.newBalance = getBankBalance(bank, l.uid, l.currency),
                    !.newCash = IF cash = Null THEN 0 ELSE cash])
    /\ UNCHANGED <<now, bank, nextId, monetary, config, prev, ops, faults, mode>>

----------------------------------------------------------------------------
(* The bank.fixed.manage command, index.ts 1117-1226 *)

(* faulty variant: the plan is written to rate and cycle at once *)
DbSetExtensionNow(b, id, requested, rate, cycle) ==
    IF id \in DOMAIN b
    THEN [b EXCEPT ![id].extendRequested = requested,
                   ![id].nextRate = rate, ![id].nextCycle = cycle,
                   ![id].rate = rate, ![id].cycle = cycle]
    ELSE b

(* faulty variant: only extendRequested is written *)
DbSetExtensionFlagOnly(b, id, requested, rate, cycle) ==
    IF id \in DOMAIN b THEN [b EXCEPT ![id].extendRequested = requested] ELSE b

(* faulty variant: when the id is gone the newest row is written instead *)
DbSetExtensionLatest(b, id, requested, rate, cycle) ==
    LET target == IF id \in DOMAIN b \/ DOMAIN b = {} THEN id
                  ELSE CHOOSE i \in DOMAIN b : \A j \in DOMAIN b : j <= i
    IN IF target \in DOMAIN b
       THEN [b EXCEPT ![target].extendRequested = requested,
                      ![target].nextRate = rate, ![target].nextCycle = cycle]
       ELSE b

(* database.set(table, { id }, { extendRequested, nextRate, nextCycle }) *)
DbSetExtension(b, id, requested, rate, cycle) ==
    IF id \in DOMAIN b
    THEN [b EXCEPT ![id].extendRequested = requested,
                   ![id].nextRate = rate, ![id].nextCycle = cycle]
    ELSE b

(* the fixed rows are listed and the user picks one of them *)
ManageStart(p, uid, currency) ==
    /\ CanStart(p)
    /\ ops' = ops + 1
    /\ LET l == Begin(p, "manage", uid, currency, 0, 0)
           S == IdsOf(bank, uid, currency, "fixed")
       IN IF S = {}
          THEN Set(p, Fail(l, "NoFixedRecords"))
          ELSE \E fixedRecords \in OrderedSelects(bank, S) :
                 \E recordIndex \in 1..Len(fixedRecords) :
                    LET selectedRecord == fixedRecords[recordIndex]
                    IN Set(p, [l EXCEPT !.recs = fixedRecords, !.idx = recordIndex,
                                 !.record = selectedRecord,
                                 !.pc = IF selectedRecord.row.extendRequested
                                        THEN "m_cancel" ELSE "m_extend"])
    /\ UNCHANGED <<now, bank, nextId, monetary, config, prev, faults, mode>>

(* extendRequested: after yes the request is cleared *)
ManageCancel(p) ==
    /\ proc[p].pc = "m_cancel"
    /\ \E yes \in BOOLEAN, f \in Throws :
        LET l == proc[p]
        IN IF ~yes
           THEN /\ Set(p, Fail(l, "Cancelled"))
                /\ UNCHANGED <<bank, faults>>
           ELSE /\ Spend(f)
                /\ IF f
                   THEN /\ Set(p, Fail(l, "PersistenceFailure"))
                        /\ UNCHANGED bank
                   ELSE /\ Set(p, [l EXCEPT !.pc = "done", !.success = TRUE,
                                                   !.before = bank])
                        /\ bank' = DbSetExtension(bank, l.record.id, FALSE,
                                                  NoRate, NoCycle)
    /\ UNCHANGED <<now, nextId, monetary, config, prev, ops, mode>>

(* not extendRequested: a plan is chosen (0 leaves) and the request is set *)
ManageExtend(p) ==
    /\ proc[p].pc = "m_extend"
    /\ \E planIndex \in 0..Len(fixedInterest), f \in Throws :
        LET l == proc[p]
        IN IF planIndex = 0
           THEN /\ Set(p, Fail(l, "Cancelled"))
                /\ UNCHANGED <<bank, faults>>
           ELSE /\ Spend(f)
                /\ IF f
                   THEN /\ Set(p, Fail(l, "PersistenceFailure"))
                        /\ UNCHANGED bank
                   ELSE /\ Set(p, [l EXCEPT !.pc = "done", !.success = TRUE,
                                                   !.plan = planIndex,
                                                   !.before = bank])
                        /\ bank' = DbSetExtension(bank, l.record.id, TRUE,
                                                  fixedInterest[planIndex].rate,
                                                  fixedInterest[planIndex].cycle)
    /\ UNCHANGED <<now, nextId, monetary, config, prev, ops, mode>>

----------------------------------------------------------------------------
(* performSettlement and settleInterest, index.ts 498-524 and 542-605 *)

(* faulty variant: Math.ceil in place of Math.floor *)
InterestCeil(amount, rate) ==
    (amount * rate + 100 * RateScale - 1) \div (100 * RateScale)

(* Math.floor(record.amount * record.rate / 100) *)
Interest(amount, rate) == (amount * rate) \div (100 * RateScale)

(* faulty variant: every row of the snapshot is settled *)
IsDueAlways(row, today) == TRUE

(* if (settlementDate <= today) *)
IsDue(row, today) == row.settlementDate <= today

RECURSIVE NextDue(_, _, _)
(* the first index from i on whose row has settlementDate <= today *)
NextDue(recs, i, today) ==
    IF i > Len(recs) THEN i
    ELSE IF IsDue(recs[i].row, today) THEN i
    ELSE NextDue(recs, i + 1, today)

(* faulty variant: mergeDemandRecords is called after the first settlement,
   inside the loop *)
SweepNextOnce(l, from) ==
    LET i == NextDue(l.recs, from, l.today)
    IN IF i > Len(l.recs) \/ l.record.id # 0
       THEN [l EXCEPT !.pc = "mg_select", !.idx = i]
       ELSE [l EXCEPT !.pc = "s_settle", !.idx = i]

(* the for loop of performSettlement moves on to the next due row, or to
   mergeDemandRecords after the last row *)
SweepNext(l, from) ==
    LET i == NextDue(l.recs, from, l.today)
    IN IF i > Len(l.recs)
       THEN [l EXCEPT !.pc = "mg_select", !.idx = i]
       ELSE [l EXCEPT !.pc = "s_settle", !.idx = i]

(* today = new Date() at midnight; records = database.get(table, {}) *)
SweepStart(p) ==
    /\ p = "sweep"
    /\ CanStart(p)
    /\ ops' = ops + 1
    /\ LET l == Begin(p, "sweep", 0, "none", 0, 0)
       IN Set(p, [l EXCEPT !.pc = "s_next", !.today = now, !.idx = 0,
                           !.recs = PlainSelect(bank, DOMAIN bank)])
    /\ UNCHANGED <<now, bank, nextId, monetary, config, prev, faults, mode>>

SweepAdvance(p) ==
    /\ proc[p].pc = "s_next"
    /\ Set(p, SweepNext(proc[p], proc[p].idx + 1))
    /\ UNCHANGED <<now, bank, nextId, monetary, config, prev, ops, faults, mode>>

(* faulty variant: the amount is written, the settlementDate is left *)
DbSettleAmountOnly(b, id, amt, date) ==
    IF id \in DOMAIN b THEN [b EXCEPT ![id].amount = amt] ELSE b

(* database.set(table, { id }, { amount, settlementDate }) *)
DbSettle(b, id, amt, date) ==
    IF id \in DOMAIN b
    THEN [b EXCEPT ![id].amount = amt, ![id].settlementDate = date]
    ELSE b

(* faulty variant: nextRate and nextCycle are not cleared *)
DbExtendKeepPending(b, id, amt, rate, cycle, date) ==
    IF id \in DOMAIN b
    THEN [b EXCEPT ![id].amount = amt, ![id].rate = rate, ![id].cycle = cycle,
                   ![id].settlementDate = date, ![id].extendRequested = FALSE]
    ELSE b

DbExtend(b, id, amt, rate, cycle, date) ==
    IF id \in DOMAIN b
    THEN [b EXCEPT ![id].amount = amt, ![id].rate = rate, ![id].cycle = cycle,
                   ![id].settlementDate = date, ![id].extendRequested = FALSE,
                   ![id].nextRate = NoRate, ![id].nextCycle = NoCycle]
    ELSE b

(* faulty variant: the demand row is created whatever the configuration *)
ConversionAlways(cfg) == TRUE

(* if (demandConfig.enabled): a matured fixed row becomes a demand row *)
ConversionEnabled(cfg) == cfg.enabled

(* faulty variant: the throw leaves settleInterest and ends the task in the
   catch of performSettlement *)
SettleThrown(l) ==
    [l EXCEPT !.pc = "done", !.success = FALSE, !.error = "SettlementFailure"]

(* the catch of settleInterest: the error is logged and the call returns to
   the loop of performSettlement *)
SettleCaught(l) == [l EXCEPT !.pc = "s_next", !.error = "SettlementFailure"]

(* settleInterest(record), first write.  A throw is caught and logged. *)
SweepSettle(p) ==
    /\ proc[p].pc = "s_settle"
    /\ \E f \in Throws :
        /\ Spend(f)
        /\ LET l == proc[p]
               record == l.recs[l.idx]
               r == record.row
               interest == Interest(r.amount, r.rate)
               newAmount == r.amount + interest
               l1 == [l EXCEPT !.record = record, !.before = bank]
           IN IF f
              THEN /\ Set(p, SettleCaught(l1))
                   /\ UNCHANGED bank
              ELSE IF r.type = "demand"
              THEN /\ bank' = DbSettle(bank, record.id, newAmount,
                                 calculateNextSettlementDate(r.cycle, FALSE))
                   /\ Set(p, [l1 EXCEPT !.pc = "s_next"])
              ELSE IF r.extendRequested /\ r.nextCycle # NoCycle
              THEN /\ bank' = DbExtend(bank, record.id, newAmount, r.nextRate,
                                 r.nextCycle,
                                 calculateNextSettlementDate(r.nextCycle, FALSE))
                   /\ Set(p, [l1 EXCEPT !.pc = "s_next"])
              ELSE /\ bank' = DbRemove(bank, record.id)
                   /\ Set(p, [l1 EXCEPT !.pc = IF ConversionEnabled(config)
                                               THEN "s_convert" ELSE "s_next"])
    /\ UNCHANGED <<now, nextId, monetary, config, prev, ops, mode>>

(* matured fixed row, removed: the demand row of amount + interest *)
SweepConvert(p) ==
    /\ proc[p].pc = "s_convert"
    /\ \E f \in Throws :
        /\ Spend(f)
        /\ LET l == proc[p]
               r == l.record.row
               totalAmount == r.amount + Interest(r.amount, r.rate)
               row == NewRow(r.uid, r.currency, totalAmount, "demand",
                             config.rate, config.cycle,
                             calculateNextSettlementDate(config.cycle, FALSE))
           IN IF f
              THEN /\ Set(p, SettleCaught(l))
                   /\ UNCHANGED <<bank, nextId>>
              ELSE /\ Set(p, [l EXCEPT !.pc = "s_next"])
                   /\ bank' = DbCreate(bank, nextId, row)
                   /\ nextId' = nextId + 1
    /\ UNCHANGED <<now, monetary, config, prev, ops, mode>>

----------------------------------------------------------------------------
(* mergeDemandRecords, index.ts 632-687 *)

(* `${uid}|${currency}|${sd.getTime()}|${rate}|${cycle}` *)
GroupKey(r) == <<r.uid, r.currency, r.settlementDate, r.rate, r.cycle>>

RECURSIVE GroupKeys(_, _, _)
(* the keys of the rows in order of first appearance *)
GroupKeys(recs, i, acc) ==
    IF i > Len(recs) THEN acc
    ELSE LET k == GroupKey(recs[i].row)
         IN IF \E j \in 1..Len(acc) : acc[j] = k
            THEN GroupKeys(recs, i + 1, acc)
            ELSE GroupKeys(recs, i + 1, Append(acc, k))

(* faulty variant: total holds the amount of the group's first row *)
GroupOfFirstAmount(recs, k) ==
    LET members == SelectSeq(recs, LAMBDA x : GroupKey(x.row) = k)
    IN [ids |-> [j \in 1..Len(members) |-> members[j].id],
        uid |-> k[1], currency |-> k[2], settlementDate |-> k[3],
        rate |-> k[4], cycle |-> k[5],
        total |-> members[1].row.amount]

(* the group of key k: the ids of its rows and the sum of their amounts *)
GroupOf(recs, k) ==
    LET members == SelectSeq(recs, LAMBDA x : GroupKey(x.row) = k)
    IN [ids |-> [j \in 1..Len(members) |-> members[j].id],
        uid |-> k[1], currency |-> k[2], settlementDate |-> k[3],
        rate |-> k[4], cycle |-> k[5],
        total |-> SumSeq([j \in 1..Len(members) |-> members[j].row.amount])]

(* faulty variant: groups of one row are not skipped *)
MergeGroupsAll(recs) ==
    LET keys == GroupKeys(recs, 1, <<>>)
    IN [j \in 1..Len(keys) |-> GroupOf(recs, keys[j])]

(* the groups the second loop does not skip: ids.length > 1 *)
MergeGroups(recs) ==
    LET keys == GroupKeys(recs, 1, <<>>)
        groups == [j \in 1..Len(keys) |-> GroupOf(recs, keys[j])]
    IN SelectSeq(groups, LAMBDA g : Len(g.ids) > 1)

(* the demand rows are selected and grouped *)
MergeSelect(p) ==
    /\ proc[p].pc = "mg_select"
    /\ LET l == proc[p]
           records == PlainSelect(bank, {i \in DOMAIN bank : bank[i].type = "demand"})
           groups == MergeGroups(records)
       IN IF groups = <<>>
          THEN Set(p, [l EXCEPT !.pc = "done", !.success = TRUE, !.recs = records,
                                !.groups = groups, !.before = bank])
          ELSE Set(p, [l EXCEPT !.pc = "mg_remove", !.recs = records,
                                !.groups = groups, !.gi = 1, !.idx = 1,
                                !.before = bank])
    /\ UNCHANGED <<now, bank, nextId, monetary, config, prev, ops, faults, mode>>

(* faulty variant: the throw leaves the loops and ends mergeDemandRecords in
   its outer catch *)
MergeThrown(l, next) == [l EXCEPT !.pc = "done", !.success = TRUE]

(* the catch around one remove, and around the create: the error is logged
   and the loop goes on as it would have *)
MergeCaught(l, next) == next

(* one row of the group is removed; a throw is caught and logged.
   l.removed adds up the amounts of the rows the group's removes deleted. *)
MergeRemove(p) ==
    /\ proc[p].pc = "mg_remove"
    /\ \E f \in Throws :
        /\ Spend(f)
        /\ LET l == proc[p]
               g == l.groups[l.gi]
               id == g.ids[l.idx]
               gone == IF ~f /\ id \in DOMAIN bank THEN bank[id].amount ELSE 0
               sum == IF l.idx = 1 THEN gone ELSE l.removed + gone
               l1 == IF l.idx + 1 > Len(g.ids)
                     THEN [l EXCEPT !.pc = "mg_create", !.idx = l.idx + 1,
                                    !.removed = sum]
                     ELSE [l EXCEPT !.idx = l.idx + 1, !.removed = sum]
           IN /\ Set(p, IF f THEN MergeCaught(l, l1) ELSE l1)
              /\ bank' = IF f THEN bank ELSE DbRemove(bank, id)
    /\ UNCHANGED <<now, nextId, monetary, config, prev, ops, mode>>

(* the merged row is created; a throw is caught and logged *)
MergeCreate(p) ==
    /\ proc[p].pc = "mg_create"
    /\ \E f \in Throws :
        /\ Spend(f)
        /\ LET l == proc[p]
               g == l.groups[l.gi]
               row == NewRow(g.uid, g.currency, g.total, "demand", g.rate, g.cycle,
                             g.settlementDate)
               l1 == IF l.gi + 1 > Len(l.groups)
                     THEN [l EXCEPT !.pc = "done", !.success = TRUE, !.gi = l.gi + 1]
                     ELSE [l EXCEPT !.pc = "mg_remove", !.gi = l.gi + 1, !.idx = 1]
           IN /\ Set(p, IF f THEN MergeCaught(l, l1) ELSE l1)
              /\ IF f
                 THEN UNCHANGED <<bank, nextId>>
                 ELSE /\ bank' = DbCreate(bank, nextId, row)
                      /\ nextId' = nextId + 1
    /\ UNCHANGED <<now, monetary, config, prev, ops, mode>>

----------------------------------------------------------------------------
(* The bank command (home page), index.ts 748-771 *)

(* balance = await ctx.monetaryBank.getBalance(uid, currency) *)
HomeStart(p, uid, currency) ==
    /\ CanStart(p)
    /\ ops' = ops + 1
    /\ Set(p, [Begin(p, "home", uid, currency, 0, 0) EXCEPT
                 !.pc = "h_cash",
                 !.newBalance = getBankBalance(bank, uid, currency)])
    /\ UNCHANGED <<now, bank, nextId, monetary, config, prev, faults, mode>>

(* cash = await getMonetaryBalance(ctx, uid, currency) || 0; the page is
   rendered from balance and cash.  before is the bank table at this read. *)
HomeCash(p) ==
    /\ proc[p].pc = "h_cash"
    /\ LET l == proc[p]
           cash == getMonetaryBalance(monetary, l.uid, l.currency)
       IN Set(p, [l EXCEPT !.pc = "done", !.success = TRUE,
                           !.newCash = IF cash = Null THEN 0 ELSE cash,
                           !.before = bank])
    /\ UNCHANGED <<now, bank, nextId, monetary, config, prev, ops, faults, mode>>

----------------------------------------------------------------------------
(* Return of a handler, the clock, and the initial states *)

Return(p) ==
    /\ proc[p].pc = "done"
    /\ prev' = IF proc[p].success /\ proc[p].op = "deposit"
               THEN Summary(proc[p])
               ELSE IF proc[p].success /\ proc[p].op = "manage"
               THEN [Summary(proc[p]) EXCEPT
                        !.op = IF proc[p].plan > 0 THEN "extend" ELSE "cancel"]
               ELSE IF proc[p].op = "sweep"
                    THEN [NoPrev EXCEPT !.op = "sweep", !.day = proc[p].today]
                    ELSE NoPrev
    /\ Set(p, Idle)
    /\ UNCHANGED <<now, bank, nextId, monetary, config, ops, faults, mode>>

(* Midnight passes *)
Tick ==
    /\ now < MaxDay
    /\ mode = "seq" => AllIdle
    /\ now' = now + 1
    /\ UNCHANGED <<bank, nextId, monetary, config, proc, prev, ops, faults, mode>>

(* Contents of monetary_bank_int at start (day 0): the empty table and
   three tables earlier deposits, fixed terms and extension requests left *)
Extending(row, rate, cycle) ==
    [row EXCEPT !.extendRequested = TRUE, !.nextRate = rate, !.nextCycle = cycle]

InitBanks == {
    <<>>,
    << NewRow(1, "coin", 30, "demand", 25, "day", 0),
       NewRow(1, "coin", 50, "demand", 25, "day", 1),
       NewRow(1, "coin", 20, "demand", 25, "day", 2) >>,
    << NewRow(1, "coin", 200, "demand", 25, "day", 1),
       NewRow(1, "coin", 1000, "fixed", 500, "week", 0),
       NewRow(2, "coin", 400, "demand", 25, "day", 0) >>,
    << Extending(NewRow(1, "coin", 1000, "fixed", 500, "day", 0), 435, "week"),
       NewRow(1, "coin", 40, "demand", 25, "day", 1),
       NewRow(1, "coin", 20, "demand", 25, "day", 1),
       NewRow(1, "gem", 70, "demand", 25, "day", 1),
       NewRow(1, "gem", 30, "demand", 25, "day", 1) >> }

(* Contents of the monetary table at start *)
InitMonetary == {
    [k \in {<<1, "coin">>, <<2, "coin">>} |-> IF k[1] = 1 THEN 50 ELSE 10],
    [k \in {<<1, "coin">>, <<1, "gem">>} |-> IF k[2] = "coin" THEN 150 ELSE 7] }

InitCommon ==
    /\ now = 0
    /\ bank \in InitBanks
    /\ nextId = Cardinality(DOMAIN bank) + 1
    /\ monetary \in InitMonetary
    /\ config \in ConfigChoices
    /\ prev = NoPrev
    /\ ops = 0

Init ==
    /\ InitCommon
    /\ proc = [p \in {"s1", "sweep"} |-> Idle]
    /\ faults = 0
    /\ mode = "seq"

Next ==
    \/ \E p \in Sessions, uid \in Users, currency \in Currencies :
          \/ \E amount \in AmountChoices :
                \/ DepositStart(p, uid, currency, amount)
                \/ WithdrawStart(p, uid, currency, amount)
                \/ \E plan \in 1..Len(fixedInterest) :
                      FixedStart(p, uid, currency, plan, amount)
          \/ ManageStart(p, uid, currency)
    \/ \E p \in DOMAIN proc :
          \/ ChangeFind(p) \/ ChangeCreateUser(p) \/ ChangeSet(p)
          \/ DepositCreateUser(p) \/ DepositCreate(p) \/ DepositBalance(p)
          \/ WithdrawSelect(p) \/ WithdrawLoop(p) \/ WithdrawCredit(p)
          \/ FixedFunds(p) \/ FixedConfirm(p) \/ FixedAfterCash(p)
          \/ FixedSelect(p) \/ FixedLoop(p) \/ FixedCreate(p) \/ FixedResult(p)
          \/ ManageCancel(p) \/ ManageExtend(p)
          \/ SweepStart(p) \/ SweepAdvance(p) \/ SweepSettle(p) \/ SweepConvert(p)
          \/ MergeSelect(p) \/ MergeRemove(p) \/ MergeCreate(p)
          \/ Return(p)
    \/ Tick

Spec == Init /\ [][Next]_vars


(* Sequential runs in which one database write may throw *)
InitFault ==
    /\ InitCommon
    /\ proc = [p \in {"s1", "sweep"} |-> Idle]
    /\ faults = 1
    /\ mode = "seq"

SpecFault == InitFault /\ [][Next]_vars

(* A withdraw session and the settlement task interleave at every await *)
RaceBank ==
    << NewRow(1, "coin", 400, "demand", 25, "day", 0),
       NewRow(1, "coin", 120, "demand", 25, "day", 1),
       NewRow(1, "coin", 80, "demand", 25, "day", 1),
       NewRow(1, "coin", 1000, "fixed", 500, "week", 0),
       NewRow(2, "coin", 400, "demand", 25, "day", 0) >>

InitRace ==
    /\ now = 0
    /\ bank = RaceBank
    /\ nextId = Len(RaceBank) + 1
    /\ monetary = [k \in {<<1, "coin">>} |-> 50]
    /\ config = [enabled |-> TRUE, rate |-> 25, cycle |-> "day"]
    /\ prev = NoPrev
    /\ ops = 0
    /\ proc = [p \in {"s1", "sweep"} |-> Idle]
    /\ faults = 0
    /\ mode = "conc"

NextRace ==
    \/ \E p \in Sessions, uid \in Users, currency \in Currencies,
            amount \in AmountChoices :
          WithdrawStart(p, uid, currency, amount)
    \/ \E p \in DOMAIN proc :
          \/ ChangeFind(p) \/ ChangeCreateUser(p) \/ ChangeSet(p)
          \/ WithdrawSelect(p) \/ WithdrawLoop(p) \/ WithdrawCredit(p)
          \/ SweepStart(p) \/ SweepAdvance(p) \/ SweepSettle(p) \/ SweepConvert(p)
          \/ MergeSelect(p) \/ MergeRemove(p) \/ MergeCreate(p)
          \/ Return(p)
    \/ Tick

SpecRace == InitRace /\ [][NextRace]_vars

(* A bank.fixed.manage session and the settlement task interleave at every
   await: between the select of the fixed rows, the prompts and the set *)
ManageBank ==
    << NewRow(1, "coin", 1000, "fixed", 500, "week", 0),
       Extending(NewRow(1, "coin", 600, "fixed", 500, "day", 0), 435, "week"),
       NewRow(1, "coin", 40, "demand", 25, "day", 1),
       NewRow(1, "coin", 20, "demand", 25, "day", 1) >>

InitManage ==
    /\ now = 0
    /\ bank = ManageBank
    /\ nextId = Len(ManageBank) + 1
    /\ monetary = [k \in {<<1, "coin">>} |-> 50]
    /\ config = [enabled |-> TRUE, rate |-> 25, cycle |-> "day"]
    /\ prev = NoPrev
    /\ ops = 0
    /\ proc = [p \in {"s1", "sweep"} |-> Idle]
    /\ faults = 0
    /\ mode = "conc"

NextManage ==
    \/ \E p \in Sessions, uid \in Users, currency \in Currencies :
          ManageStart(p, uid, currency)
    \/ \E p \in DOMAIN proc :
          \/ ManageCancel(p) \/ ManageExtend(p)
          \/ SweepStart(p) \/ SweepAdvance(p) \/ SweepSettle(p) \/ SweepConvert(p)
          \/ MergeSelect(p) \/ MergeRemove(p) \/ MergeCreate(p)
          \/ Return(p)
    \/ Tick

SpecManage == InitManage /\ [][NextManage]_vars

(* Two sessions, each running a deposit or the bank command, interleave at
   every await.  changeMonetary is called by deposit after the cash row was
   found or created, so its createMonetaryUser branch is never taken here
   and is left out of the steps. *)
ReadBank ==
    << NewRow(1, "coin", 200, "demand", 25, "day", 1),
       NewRow(1, "coin", 1000, "fixed", 500, "week", 0) >>

InitRead ==
    /\ now = 0
    /\ bank = ReadBank
    /\ nextId = Len(ReadBank) + 1
    /\ monetary = [k \in {<<1, "coin">>} |-> 150]
    /\ config = [enabled |-> TRUE, rate |-> 25, cycle |-> "day"]
    /\ prev = NoPrev
    /\ ops = 0
    /\ proc = [p \in {"s1", "s2"} |-> Idle]
    /\ faults = 0
    /\ mode = "conc"

NextRead ==
    \/ \E p \in Sessions, uid \in Users, currency \in Currencies :
          \/ \E amount \in AmountChoices : DepositStart(p, uid, currency, amount)
          \/ HomeStart(p, uid, currency)
    \/ \E p \in DOMAIN proc :
          \/ ChangeFind(p) \/ ChangeSet(p)
          \/ DepositCreateUser(p) \/ DepositCreate(p) \/ DepositBalance(p)
          \/ HomeCash(p)
          \/ Return(p)

SpecRead == InitRead /\ [][NextRead]_vars

(* Two sessions, each running a deposit, a withdraw or the bank.fixed
   command, interleave at every await *)
SessionsBank ==
    << NewRow(1, "coin", 120, "demand", 25, "day", 0),
       NewRow(1, "coin", 80, "demand", 25, "day", 1),
       NewRow(2, "coin", 400, "demand", 25, "day", 0) >>

InitSessions ==
    /\ now = 0
    /\ bank = SessionsBank
    /\ nextId = Len(SessionsBank) + 1
    /\ monetary = [k \in {<<1, "coin">>} |-> 50]
    /\ config = [enabled |-> TRUE, rate |-> 25, cycle |-> "day"]
    /\ prev = NoPrev
    /\ ops = 0
    /\ proc = [p \in {"s1", "s2"} |-> Idle]
    /\ faults = 0
    /\ mode = "conc"

NextSessions ==
    \/ \E p \in Sessions, uid \in Users, currency \in Currencies,
            amount \in AmountChoices :
          \/ DepositStart(p, uid, currency, amount)
          \/ WithdrawStart(p, uid, currency, amount)
          \/ \E plan \in 1..Len(fixedInterest) :
                FixedStart(p, uid, currency, plan, amount)
    \/ \E p \in DOMAIN proc :
          \/ ChangeFind(p) \/ ChangeCreateUser(p) \/ ChangeSet(p)
          \/ DepositCreateUser(p) \/ DepositCreate(p) \/ DepositBalance(p)
          \/ WithdrawSelect(p) \/ WithdrawLoop(p) \/ WithdrawCredit(p)
          \/ FixedFunds(p) \/ FixedConfirm(p) \/ FixedAfterCash(p)
          \/ FixedSelect(p) \/ FixedLoop(p) \/ FixedCreate(p) \/ FixedResult(p)
          \/ Return(p)

SpecSessions == InitSessions /\ [][NextSessions]_vars

----------------------------------------------------------------------------
(* Properties.  A handler that has finished stays at pc = "done" with its
   locals and with pre, the tables as they were when it started, until
   Return; the properties of one operation are stated there. *)

Finished(p, op) == proc[p].pc = "done" /\ proc[p].op = op
Succeeded(p, op) == Finished(p, op) /\ proc[p].success

(* Row i of table b0 was removed or had its amount changed in b1 *)
Touched(b0, b1, i) == i \notin DOMAIN b1 \/ b1[i].amount # b0[i].amount

(* b1 is b0 after its demand rows D were consumed oldest first by amt:
   the amount removed is amt, every row that remains keeps a positive amount
   not above its old one, at most one row is decremented, and a row is
   touched only when every row of an earlier settlementDate is gone *)
ConsumedOldestFirst(b0, b1, D, amt) ==
    /\ Principal(b0, D) - Principal(b1, D \cap DOMAIN b1) = amt
    /\ \A i \in D \cap DOMAIN b1 :
          /\ b1[i].amount > 0
          /\ b1[i].amount <= b0[i].amount
          /\ [b1[i] EXCEPT !.amount = b0[i].amount] = b0[i]
    /\ Cardinality({i \in D \cap DOMAIN b1 : b1[i].amount < b0[i].amount}) <= 1
    /\ \A i, j \in D :
          (Touched(b0, b1, j) /\ b0[i].settlementDate < b0[j].settlementDate)
             => i \notin DOMAIN b1
    /\ \A i, j \in D :
          (i \in DOMAIN b1 /\ b1[i].amount < b0[i].amount
              /\ b0[j].settlementDate > b0[i].settlementDate)
             => ~Touched(b0, b1, j)

(* C1: a withdraw, and the demand-side funding of a fixed term, consume the
   user's demand rows in ascending settlementDate order and greedily: rows
   are removed whole while they fit, one row at most is decremented by the
   remainder, no later row is touched while an earlier one is left, and the
   amount removed is the amount asked for (amount - fromCash for a fixed
   term). *)
C1_OldestFirst ==
    \A p \in DOMAIN proc :
        LET l == proc[p]
            D == DemandIds(l.pre.bank, l.uid, l.currency)
        IN /\ Succeeded(p, "withdraw")
                => ConsumedOldestFirst(l.pre.bank, bank, D, l.amount)
           /\ Succeeded(p, "fixed")
                => ConsumedOldestFirst(l.pre.bank, bank, D, l.amount - l.fromCash)

(* the example: [30, 50, 20] oldest first, withdraw 40, leaves [40, 20] *)
C1_Witness ==
    \E p \in DOMAIN proc :
        /\ Succeeded(p, "withdraw")
        /\ proc[p].amount = 40
        /\ DOMAIN proc[p].pre.bank = {1, 2, 3}
        /\ proc[p].pre.bank[1].amount = 30
        /\ proc[p].pre.bank[2].amount = 50
        /\ proc[p].pre.bank[3].amount = 20
        /\ DOMAIN bank = {2, 3}
        /\ bank[2].amount = 40
        /\ bank[3].amount = 20

(* C2: a successful deposit takes exactly amount from the user's cash, adds
   exactly one demand row of that amount with extendRequested = FALSE for the
   user and currency, leaves every other row as it was, and returns a balance
   whose total and demand grew by amount and whose fixed is unchanged. *)
C2_DepositEffect ==
    \A p \in DOMAIN proc :
        Succeeded(p, "deposit") =>
            LET l == proc[p]
                b0 == l.pre.bank
                created == DOMAIN bank \ DOMAIN b0
            IN /\ l.amount > 0
               /\ Cash(l.pre.monetary, l.uid, l.currency) >= l.amount
               /\ Cash(monetary, l.uid, l.currency)
                     = Cash(l.pre.monetary, l.uid, l.currency) - l.amount
               /\ l.newCash = Cash(monetary, l.uid, l.currency)
               /\ \A i \in DOMAIN b0 : i \in DOMAIN bank /\ bank[i] = b0[i]
               /\ Cardinality(created) = 1
               /\ \A i \in created :
                     /\ bank[i].uid = l.uid
                     /\ bank[i].currency = l.currency
                     /\ bank[i].type = "demand"
                     /\ bank[i].amount = l.amount
                     /\ bank[i].extendRequested = FALSE
               /\ l.newBalance =
                     [total |-> BankTotal(b0, l.uid, l.currency) + l.amount,
                      demand |-> DemandTotal(b0, l.uid, l.currency) + l.amount,
                      fixed |-> FixedTotal(b0, l.uid, l.currency)]

(* a deposit succeeded for a user who holds fixed and demand rows already *)
C2_Witness ==
    \E p \in DOMAIN proc :
        /\ Succeeded(p, "deposit")
        /\ proc[p].newBalance.fixed > 0
        /\ proc[p].newBalance.demand > proc[p].amount
        /\ \E i \in DOMAIN bank : bank[i].uid # proc[p].uid

(* C3: deposit(amount) directly followed by withdraw(amount) of the same user
   and currency leaves the user's cash and total bank balance as they were
   before the deposit. *)
C3_RoundTrip ==
    \A p \in DOMAIN proc :
        LET l == proc[p]
        IN (/\ Succeeded(p, "withdraw")
            /\ prev.op = "deposit"
            /\ prev.uid = l.uid
            /\ prev.currency = l.currency
            /\ prev.amount = l.amount)
           => /\ Cash(monetary, l.uid, l.currency) = prev.cash
              /\ BankTotal(bank, l.uid, l.currency) = prev.total
              /\ l.newCash = prev.cash
              /\ l.newBalance.total = prev.total

(* the withdraw took rows that were there before the deposit *)
C3_Witness ==
    \E p \in DOMAIN proc :
        /\ Succeeded(p, "withdraw")
        /\ prev.op = "deposit"
        /\ prev.uid = proc[p].uid
        /\ prev.amount = proc[p].amount
        /\ prev.total > 0
        /\ \E i \in DOMAIN proc[p].pre.bank :
              /\ proc[p].pre.bank[i].uid = proc[p].uid
              /\ proc[p].pre.bank[i].type = "demand"
              /\ i \notin DOMAIN bank


(* C4: when the demand row cannot be created after the cash was taken,
   deposit reports failure with the cash back at its value before the deposit
   and no new row. *)
C4_DepositRefund ==
    \A p \in DOMAIN proc :
        (Finished(p, "deposit") /\ ~proc[p].success
            /\ proc[p].error = "PersistenceFailure") =>
            LET l == proc[p]
            IN /\ Cash(monetary, l.uid, l.currency)
                     = Cash(l.pre.monetary, l.uid, l.currency)
               /\ DOMAIN bank = DOMAIN l.pre.bank

(* C5: when the cash credit fails after demand rows were deducted, withdraw
   reports failure with the user's demand total back at its value before the
   withdraw. *)
C5_WithdrawRollback ==
    \A p \in DOMAIN proc :
        (Finished(p, "withdraw") /\ ~proc[p].success
            /\ proc[p].error = "CreditFailed") =>
            LET l == proc[p]
            IN DemandTotal(bank, l.uid, l.currency)
                  = DemandTotal(l.pre.bank, l.uid, l.currency)

(* C6: when bank.fixed ends without its fixed row, the user's cash plus total
   bank principal is what it was before the command. *)
C6_FixedNoStrandedFunds ==
    \A p \in DOMAIN proc :
        (Finished(p, "fixed") /\ ~proc[p].success) =>
            LET l == proc[p]
                cash0 == Cash(l.pre.monetary, l.uid, l.currency)
                cash1 == Cash(monetary, l.uid, l.currency)
            IN (IF cash1 = Null THEN 0 ELSE cash1) + BankTotal(bank, l.uid, l.currency)
                 = (IF cash0 = Null THEN 0 ELSE cash0)
                      + BankTotal(l.pre.bank, l.uid, l.currency)


(* The sweep has just finished settleInterest for l.record; l.before is the
   table as it was when that call began *)
Settled(p) ==
    /\ proc[p].op = "sweep"
    /\ proc[p].pc = "s_next"
    /\ proc[p].record.id # 0
    /\ proc[p].error = "none"

(* C9: with demand interest enabled, settling a matured fixed row without an
   extension request removes the row and creates exactly one demand row of the
   same user and currency with amount = principal + floor(principal * rate /
   100), extendRequested = FALSE and settlementDate = sweep day + one cycle
   (no T+1 day); every other row is untouched. *)
C9_FixedConversion ==
    \A p \in DOMAIN proc :
        LET l == proc[p]
            r == l.record.row
            created == DOMAIN bank \ DOMAIN l.before
        IN (Settled(p) /\ r.type = "fixed" /\ ~r.extendRequested /\ config.enabled) =>
              /\ l.record.id \notin DOMAIN bank
              /\ DOMAIN l.before \ DOMAIN bank = {l.record.id}
              /\ \A i \in DOMAIN bank \cap DOMAIN l.before : bank[i] = l.before[i]
              /\ Cardinality(created) = 1
              /\ \A i \in created :
                    /\ bank[i].uid = r.uid
                    /\ bank[i].currency = r.currency
                    /\ bank[i].type = "demand"
                    /\ bank[i].amount = r.amount + (r.amount * r.rate) \div 10000
                    /\ bank[i].extendRequested = FALSE
                    /\ bank[i].nextRate = NoRate
                    /\ bank[i].nextCycle = NoCycle
                    /\ bank[i].cycle = config.cycle
                    /\ bank[i].settlementDate = l.today + CycleDays(config.cycle)

(* the example: 1000 at 5 % becomes one demand row of 1050 *)
C9_Witness ==
    \E p \in DOMAIN proc :
        /\ Settled(p)
        /\ proc[p].record.row.type = "fixed"
        /\ ~proc[p].record.row.extendRequested
        /\ config.enabled
        /\ proc[p].record.row.amount = 1000
        /\ proc[p].record.row.rate = 500
        /\ \E i \in DOMAIN bank \ DOMAIN proc[p].before :
              bank[i].amount = 1050 /\ bank[i].type = "demand"

(* C10: settling a matured fixed row with an extension request adds the
   interest at the old rate, takes nextRate / nextCycle as rate / cycle,
   clears extendRequested, nextRate and nextCycle, sets settlementDate to the
   sweep day plus one new cycle, and keeps the row, its id and type fixed. *)
C10_FixedExtension ==
    \A p \in DOMAIN proc :
        LET l == proc[p]
            r == l.record.row
            id == l.record.id
        IN (Settled(p) /\ r.type = "fixed" /\ r.extendRequested) =>
              /\ DOMAIN bank = DOMAIN l.before
              /\ \A i \in DOMAIN bank \ {id} : bank[i] = l.before[i]
              /\ bank[id] =
                    [r EXCEPT !.amount = r.amount + (r.amount * r.rate) \div 10000,
                              !.rate = r.nextRate,
                              !.cycle = r.nextCycle,
                              !.extendRequested = FALSE,
                              !.nextRate = NoRate,
                              !.nextCycle = NoCycle,
                              !.settlementDate = l.today + CycleDays(r.nextCycle)]
              /\ bank[id].type = "fixed"

(* the example: 1000 at 5 %, pending 4.35 % / week, becomes 1050 at 4.35 % *)
C10_Witness ==
    \E p \in DOMAIN proc :
        /\ Settled(p)
        /\ proc[p].record.row.type = "fixed"
        /\ proc[p].record.row.extendRequested
        /\ proc[p].record.row.amount = 1000
        /\ proc[p].record.row.rate = 500
        /\ proc[p].record.id \in DOMAIN bank
        /\ bank[proc[p].record.id].amount = 1050
        /\ bank[proc[p].record.id].rate = 435
        /\ bank[proc[p].record.id].cycle = "week"
        /\ bank[proc[p].record.id].extendRequested = FALSE


(* C7: a settlement and a withdraw never both write a row from the same stale
   principal: the principal settleInterest adds the interest to is the
   principal the row holds when the settlement is written. *)
C7_SettleFreshPrincipal ==
    \A p \in DOMAIN proc :
        LET l == proc[p]
        IN (Settled(p) /\ l.record.id \in DOMAIN l.before) =>
              l.before[l.record.id].amount = l.record.row.amount

(* The merge of group gi - 1 has just ended *)
Merged(p) ==
    /\ proc[p].op = "sweep"
    /\ proc[p].gi > 1
    /\ proc[p].pc = "done" \/ (proc[p].pc = "mg_remove" /\ proc[p].idx = 1)

(* C8: compaction never replaces a group by a stale sum: the amount of the
   merged row is the sum of the amounts the removed rows held when they were
   removed. *)
C8_MergeFreshSum ==
    \A p \in DOMAIN proc :
        Merged(p) => proc[p].groups[proc[p].gi - 1].total = proc[p].removed


(* C11: settling a due demand row compounds it in place: the amount grows by
   floor(amount * rate / 100), the row keeps its id, type demand, rate and
   cycle, and its settlementDate becomes the day of the settlement plus one
   cycle, with no T+1 day; no other row changes. *)
C11_DemandCompound ==
    \A p \in DOMAIN proc :
        LET l == proc[p]
            r == l.record.row
            id == l.record.id
        IN (Settled(p) /\ r.type = "demand") =>
              /\ DOMAIN bank = DOMAIN l.before
              /\ \A i \in DOMAIN bank \ {id} : bank[i] = l.before[i]
              /\ l.before[id] = r
              /\ bank[id] =
                    [r EXCEPT !.amount = r.amount + (r.amount * r.rate) \div 10000,
                              !.settlementDate = l.today + CycleDays(r.cycle)]
              /\ bank[id].type = "demand"
              /\ bank[id].rate = r.rate
              /\ bank[id].cycle = r.cycle

(* a demand row of 400 at 0.25 % / day, due on day 0, holds 401 and is due on
   day 1 after the sweep of day 0 *)
C11_Witness ==
    \E p \in DOMAIN proc :
        /\ Settled(p)
        /\ proc[p].record.row.type = "demand"
        /\ proc[p].record.row.amount = 400
        /\ proc[p].record.row.settlementDate = 0
        /\ proc[p].today = 0
        /\ bank[proc[p].record.id].amount = 401
        /\ bank[proc[p].record.id].settlementDate = 1

(* an overdue demand row: due on day 0, settled by the sweep of day 1, is due
   on day 2 afterwards *)
C11_WitnessOverdue ==
    \E p \in DOMAIN proc :
        /\ Settled(p)
        /\ proc[p].record.row.type = "demand"
        /\ proc[p].record.row.settlementDate < proc[p].today
        /\ bank[proc[p].record.id].settlementDate = proc[p].today + 1


(* The interest a finished settleInterest applied to l.record: the growth of
   the row when it was kept, of the demand row that replaced it otherwise *)
AppliedInterest(l) ==
    IF l.record.id \in DOMAIN bank
    THEN {bank[l.record.id].amount - l.record.row.amount}
    ELSE {bank[i].amount - l.record.row.amount :
             i \in DOMAIN bank \ DOMAIN l.before}

(* C12: the interest every settlement applies is floor(amount * rate / 100):
   a natural number, not above amount * rate / 100 and less than one below
   it, and zero whenever amount * rate < 100 (rates in hundredths of a
   percent: amount * rate < 10000). *)
C12_InterestFloor ==
    \A p \in DOMAIN proc :
        LET l == proc[p]
            r == l.record.row
        IN Settled(p) =>
              /\ r.amount >= 0 /\ r.rate >= 0
              /\ \A interest \in AppliedInterest(l) :
                    /\ interest \in Nat
                    /\ interest * 10000 <= r.amount * r.rate
                    /\ r.amount * r.rate < (interest + 1) * 10000
                    /\ r.amount * r.rate < 10000 => interest = 0

(* 30 at 0.25 %: 0.075 is truncated, the row still holds 30 *)
C12_Witness ==
    \E p \in DOMAIN proc :
        /\ Settled(p)
        /\ proc[p].record.row.amount = 30
        /\ proc[p].record.row.rate = 25
        /\ AppliedInterest(proc[p]) = {0}


(* Cash as bank.fixed reads it: getMonetaryBalance(...) || 0 *)
CashOrZero(m, uid, currency) ==
    IF Cash(m, uid, currency) = Null THEN 0 ELSE Cash(m, uid, currency)

(* C13: a fixed term is funded from cash first and from demand rows only for
   the shortfall: with cash + demand total >= amount, fromCash is the smaller
   of cash and amount and fromDemand = amount - fromCash; the cash falls by
   fromCash and the demand total by fromDemand; when the cash covers the
   amount no demand row is touched. *)
C13_CashFirst ==
    \A p \in DOMAIN proc :
        Succeeded(p, "fixed") =>
            LET l == proc[p]
                b0 == l.pre.bank
                cash0 == CashOrZero(l.pre.monetary, l.uid, l.currency)
                demand0 == DemandTotal(b0, l.uid, l.currency)
                smaller == IF cash0 <= l.amount THEN cash0 ELSE l.amount
            IN /\ cash0 + demand0 >= l.amount
               /\ l.fromCash = smaller
               /\ l.fromDemand = l.amount - smaller
               /\ CashOrZero(monetary, l.uid, l.currency) = cash0 - l.fromCash
               /\ DemandTotal(bank, l.uid, l.currency) = demand0 - l.fromDemand
               /\ cash0 >= l.amount =>
                     \A i \in DOMAIN b0 : i \in DOMAIN bank /\ bank[i] = b0[i]

(* the example: amount 120 with cash 50 and demand 200 takes 50 from cash and
   70 from demand *)
C13_Witness ==
    \E p \in DOMAIN proc :
        /\ Succeeded(p, "fixed")
        /\ proc[p].amount = 120
        /\ Cash(proc[p].pre.monetary, proc[p].uid, proc[p].currency) = 50
        /\ DemandTotal(proc[p].pre.bank, proc[p].uid, proc[p].currency) = 200
        /\ proc[p].fromCash = 50
        /\ proc[p].fromDemand = 70
        /\ Cash(monetary, proc[p].uid, proc[p].currency) = 0
        /\ DemandTotal(bank, proc[p].uid, proc[p].currency) = 130


(* C14: a successful bank.fixed creates exactly one row: type fixed, amount =
   the amount asked for, rate and cycle of the chosen plan, extendRequested =
   FALSE, no pending plan, settlementDate = today + 1 day + one cycle as for
   a deposit; it removes no fixed row and changes no row of another user or
   currency, and the user's cash plus total bank principal is what it was
   before. *)
C14_FixedCreated ==
    \A p \in DOMAIN proc :
        Succeeded(p, "fixed") =>
            LET l == proc[p]
                b0 == l.pre.bank
                created == DOMAIN bank \ DOMAIN b0
                selectedPlan == fixedInterest[l.plan]
            IN /\ Cardinality(created) = 1
               /\ \A i \in created :
                     bank[i] = [uid |-> l.uid, currency |-> l.currency,
                                amount |-> l.amount, type |-> "fixed",
                                rate |-> selectedPlan.rate,
                                cycle |-> selectedPlan.cycle,
                                settlementDate |->
                                    l.pre.day + 1 + CycleDays(selectedPlan.cycle),
                                extendRequested |-> FALSE,
                                nextRate |-> NoRate, nextCycle |-> NoCycle]
               /\ \A i \in DOMAIN b0 :
                     (b0[i].type = "fixed" \/ b0[i].uid # l.uid
                         \/ b0[i].currency # l.currency)
                        => i \in DOMAIN bank /\ bank[i] = b0[i]
               /\ FixedTotal(bank, l.uid, l.currency)
                     = FixedTotal(b0, l.uid, l.currency) + l.amount
               /\ CashOrZero(monetary, l.uid, l.currency)
                        + BankTotal(bank, l.uid, l.currency)
                     = CashOrZero(l.pre.monetary, l.uid, l.currency)
                        + BankTotal(b0, l.uid, l.currency)

(* a fixed term of 120 on the week plan, paid from cash and demand, opened on
   day 1: due on day 9 *)
C14_Witness ==
    \E p \in DOMAIN proc :
        /\ Succeeded(p, "fixed")
        /\ proc[p].amount = 120
        /\ proc[p].fromCash > 0
        /\ proc[p].fromDemand > 0
        /\ proc[p].pre.day = 1
        /\ \E i \in DOMAIN bank \ DOMAIN proc[p].pre.bank :
              /\ bank[i].type = "fixed"
              /\ bank[i].rate = 435
              /\ bank[i].cycle = "week"
              /\ bank[i].settlementDate = 9


(* C15: bank.fixed with cash + demand total < amount ends with the
   insufficient-funds reply and writes nothing: the monetary table and every
   row of monetary_bank_int are as they were before the command, at its end
   and at every step before it. *)
C15_FixedInsufficient ==
    \A p \in DOMAIN proc :
        LET l == proc[p]
        IN (/\ l.op = "fixed"
            /\ l.amount > 0
            /\ CashOrZero(l.pre.monetary, l.uid, l.currency)
                  + DemandTotal(l.pre.bank, l.uid, l.currency) < l.amount)
           => /\ l.pc \in {"f_funds", "done"}
              /\ bank = l.pre.bank
              /\ monetary = l.pre.monetary
              /\ l.pc = "done" => ~l.success /\ l.error = "InsufficientFunds"

(* refused with cash 50 and demand 60 although the user holds 1000 fixed *)
C15_Witness ==
    \E p \in DOMAIN proc :
        /\ Finished(p, "fixed")
        /\ proc[p].error = "InsufficientFunds"
        /\ proc[p].amount = 120
        /\ Cash(proc[p].pre.monetary, proc[p].uid, proc[p].currency) = 50
        /\ DemandTotal(proc[p].pre.bank, proc[p].uid, proc[p].currency) = 60
        /\ FixedTotal(proc[p].pre.bank, proc[p].uid, proc[p].currency) = 1000
        /\ bank = proc[p].pre.bank
        /\ monetary = proc[p].pre.monetary


(* C16: withdraw draws on demand rows only: when the user's demand total is
   below the amount it fails with the insufficient-demand-funds error,
   whatever fixed principal the user holds, and a non-positive amount is
   rejected as well (with the invalid-amount error); in both cases the
   monetary table and every row of monetary_bank_int stay as they were. *)
C16_WithdrawRejected ==
    \A p \in DOMAIN proc :
        LET l == proc[p]
        IN (/\ l.op = "withdraw"
            /\ \/ l.amount <= 0
               \/ DemandTotal(l.pre.bank, l.uid, l.currency) < l.amount)
           => /\ l.pc = "done"
              /\ ~l.success
              /\ l.error = IF l.amount <= 0 THEN "InvalidAmount"
                            ELSE "InsufficientDemandFunds"
              /\ bank = l.pre.bank
              /\ monetary = l.pre.monetary

(* refused with demand 60 although the user holds 1000 fixed *)
C16_Witness ==
    \E p \in DOMAIN proc :
        /\ Finished(p, "withdraw")
        /\ proc[p].error = "InsufficientDemandFunds"
        /\ proc[p].amount = 120
        /\ DemandTotal(proc[p].pre.bank, proc[p].uid, proc[p].currency) = 60
        /\ FixedTotal(proc[p].pre.bank, proc[p].uid, proc[p].currency) = 1000
        /\ bank = proc[p].pre.bank
        /\ monetary = proc[p].pre.monetary

(* a withdraw of 0 by a user whose demand rows would cover any amount asked *)
C16_WitnessNonPositive ==
    \E p \in DOMAIN proc :
        /\ Finished(p, "withdraw")
        /\ proc[p].amount = 0
        /\ proc[p].error = "InvalidAmount"
        /\ DemandTotal(proc[p].pre.bank, proc[p].uid, proc[p].currency) = 400
        /\ bank = proc[p].pre.bank


(* C17: deposit of a zero or negative amount fails with the invalid-amount
   error and deposit of more than the user's cash fails with the
   insufficient-funds error; neither changes a cash balance or a row of
   monetary_bank_int.  (A user without a row in monetary reads as cash 0
   before and after: the row deposit creates for such a user holds 0.) *)
C17_DepositRejected ==
    \A p \in DOMAIN proc :
        LET l == proc[p]
            m0 == l.pre.monetary
        IN /\ (l.op = "deposit" /\ l.amount <= 0)
              => /\ l.pc = "done"
                 /\ ~l.success
                 /\ l.error = "InvalidAmount"
                 /\ bank = l.pre.bank
                 /\ monetary = m0
           /\ (/\ l.op = "deposit"
               /\ l.amount > 0
               /\ CashOrZero(m0, l.uid, l.currency) < l.amount)
              => /\ l.pc \in {"d_createUser", "done"}
                 /\ l.pc = "done" => ~l.success /\ l.error = "InsufficientFunds"
                 /\ bank = l.pre.bank
                 /\ \A k \in DOMAIN m0 : k \in DOMAIN monetary /\ monetary[k] = m0[k]
                 /\ \A k \in DOMAIN monetary \ DOMAIN m0 : monetary[k] = 0
                 /\ CashOrZero(monetary, l.uid, l.currency)
                       = CashOrZero(m0, l.uid, l.currency)

(* C17 as stated: a deposit that fails for a zero or negative amount or for
   insufficient cash leaves the monetary table and every row of
   monetary_bank_int exactly as they were. *)
C17_DepositNoChange ==
    \A p \in DOMAIN proc :
        LET l == proc[p]
        IN (/\ Finished(p, "deposit")
            /\ l.error \in {"InvalidAmount", "InsufficientFunds"})
           => /\ bank = l.pre.bank
              /\ monetary = l.pre.monetary

(* a deposit of 120 with cash 50 *)
C17_Witness ==
    \E p \in DOMAIN proc :
        /\ Finished(p, "deposit")
        /\ proc[p].error = "InsufficientFunds"
        /\ proc[p].amount = 120
        /\ Cash(proc[p].pre.monetary, proc[p].uid, proc[p].currency) = 50
        /\ Cash(monetary, proc[p].uid, proc[p].currency) = 50
        /\ bank = proc[p].pre.bank
        /\ bank # <<>>

(* a deposit of -1 *)
C17_WitnessInvalid ==
    \E p \in DOMAIN proc :
        /\ Finished(p, "deposit")
        /\ proc[p].error = "InvalidAmount"
        /\ proc[p].amount = -1
        /\ Cash(proc[p].pre.monetary, proc[p].uid, proc[p].currency) = 150

(* a deposit by a user who has no row in monetary *)
C17_WitnessNoAccount ==
    \E p \in DOMAIN proc :
        /\ Finished(p, "deposit")
        /\ proc[p].error = "InsufficientFunds"
        /\ Cash(proc[p].pre.monetary, proc[p].uid, proc[p].currency) = Null
        /\ Cash(monetary, proc[p].uid, proc[p].currency) = 0
        /\ <<proc[p].uid, proc[p].currency>> \notin DOMAIN proc[p].pre.monetary
        /\ bank = proc[p].pre.bank


(* Two rows agree on the compaction key *)
SameKey(a, b) ==
    /\ a.uid = b.uid
    /\ a.currency = b.currency
    /\ a.settlementDate = b.settlementDate
    /\ a.rate = b.rate
    /\ a.cycle = b.cycle

(* The demand rows of table b and, among them, the rows that share row i's
   key *)
AllDemand(b) == {i \in DOMAIN b : b[i].type = "demand"}
KeyClass(b, i) == {j \in AllDemand(b) : SameKey(b[j], b[i])}

(* The sweep has ended; l.before is the table as mergeDemandRecords found it *)
Compacted(p) == Finished(p, "sweep")

(* C18: when mergeDemandRecords has run, no two demand rows share the key
   (uid, currency, settlementDate, rate, cycle): every group of more than one
   row is gone and replaced by exactly one new demand row with the group's
   key, the sum of the amounts and extendRequested = FALSE; a row that was
   alone in its group is unchanged under its id; fixed rows are untouched;
   and the demand total of every user and currency is what it was. *)
C18_Compaction ==
    \A p \in DOMAIN proc :
        Compacted(p) =>
            LET b0 == proc[p].before
                created == DOMAIN bank \ DOMAIN b0
            IN /\ \A i, j \in AllDemand(bank) :
                     i # j => ~SameKey(bank[i], bank[j])
               /\ \A i \in AllDemand(b0) :
                     IF Cardinality(KeyClass(b0, i)) = 1
                     THEN i \in DOMAIN bank /\ bank[i] = b0[i]
                     ELSE /\ i \notin DOMAIN bank
                          /\ Cardinality({j \in created : SameKey(bank[j], b0[i])}) = 1
                          /\ \A j \in created :
                                SameKey(bank[j], b0[i]) =>
                                   /\ bank[j].type = "demand"
                                   /\ bank[j].amount = Principal(b0, KeyClass(b0, i))
                                   /\ bank[j].extendRequested = FALSE
                                   /\ bank[j].nextRate = NoRate
                                   /\ bank[j].nextCycle = NoCycle
               /\ \A j \in created :
                     \E i \in AllDemand(b0) :
                        SameKey(bank[j], b0[i]) /\ Cardinality(KeyClass(b0, i)) > 1
               /\ \A i \in DOMAIN b0 \ AllDemand(b0) :
                     i \in DOMAIN bank /\ bank[i] = b0[i]
               /\ \A i \in DOMAIN b0 :
                     DemandTotal(bank, b0[i].uid, b0[i].currency)
                        = DemandTotal(b0, b0[i].uid, b0[i].currency)

(* the demand row a matured fixed term of 1000 became joins the user's row of
   200 of the same key: one row of 1250, next to a row of another user *)
C18_Witness ==
    \E p \in DOMAIN proc :
        /\ Compacted(p)
        /\ Cardinality(AllDemand(proc[p].before)) = 3
        /\ \E i, j \in AllDemand(proc[p].before) :
              /\ i # j
              /\ proc[p].before[i].amount = 200
              /\ proc[p].before[j].amount = 1050
              /\ i \notin DOMAIN bank /\ j \notin DOMAIN bank
        /\ \E k \in DOMAIN bank \ DOMAIN proc[p].before : bank[k].amount = 1250
        /\ \E k \in DOMAIN bank \cap DOMAIN proc[p].before :
              bank[k].type = "demand" /\ bank[k].uid = 2


(* C19: compaction is idempotent: a sweep that directly follows a sweep of
   the same day finds no row due and no group to merge; it removes and
   creates nothing, so the table after the second mergeDemandRecords is the
   table after the first. *)
C19_CompactionIdempotent ==
    \A p \in DOMAIN proc :
        LET l == proc[p]
        IN (Compacted(p) /\ prev.op = "sweep" /\ prev.day = l.today) =>
              /\ l.record = NoRecord
              /\ l.groups = <<>>
              /\ l.before = l.pre.bank
              /\ bank = l.pre.bank
              /\ nextId \notin DOMAIN bank
              /\ \A i \in DOMAIN bank : i < nextId

(* the second sweep ran on a table in which the first had merged two rows
   into a row of 60 and two others into a row of 100 *)
C19_Witness ==
    \E p \in DOMAIN proc :
        /\ Compacted(p)
        /\ prev.op = "sweep"
        /\ prev.day = proc[p].today
        /\ ops = 2
        /\ \E i, j \in DOMAIN bank :
              /\ i > 5 /\ j > 5
              /\ bank[i].type = "demand" /\ bank[i].amount = 60
              /\ bank[j].type = "demand" /\ bank[j].amount = 100
        /\ Cardinality(AllDemand(bank)) = 2


(* The rows of the sweep's snapshot the loop of performSettlement has dealt
   with so far *)
Processed(l) ==
    IF l.pc = "s_next" THEN 1..l.idx
    ELSE IF l.pc \in {"s_settle", "s_convert", "mg_select"} THEN 1..(l.idx - 1)
    ELSE {}

(* Snapshot row rec has been settled on day today: a demand row compounded
   and moved one cycle on, a fixed row extended under its pending plan, or
   a fixed row removed and, with demand interest enabled, replaced by a
   demand row of amount + interest *)
RowSettled(rec, today, b0) ==
    LET r == rec.row
        newAmount == r.amount + (r.amount * r.rate) \div 10000
    IN IF r.type = "demand"
       THEN /\ rec.id \in DOMAIN bank
            /\ bank[rec.id].amount = newAmount
            /\ bank[rec.id].settlementDate = today + CycleDays(r.cycle)
       ELSE IF r.extendRequested
       THEN /\ rec.id \in DOMAIN bank
            /\ bank[rec.id].amount = newAmount
            /\ bank[rec.id].rate = r.nextRate
            /\ ~bank[rec.id].extendRequested
            /\ bank[rec.id].settlementDate = today + CycleDays(r.nextCycle)
       ELSE /\ rec.id \notin DOMAIN bank
            /\ config.enabled =>
                  \E i \in DOMAIN bank \ DOMAIN b0 :
                     /\ bank[i].type = "demand"
                     /\ bank[i].uid = r.uid
                     /\ bank[i].currency = r.currency
                     /\ bank[i].amount = newAmount

(* The due rows the loop has dealt with and left unsettled *)
Unsettled(l) ==
    {k \in Processed(l) :
        /\ l.recs[k].row.settlementDate <= l.today
        /\ ~RowSettled(l.recs[k], l.today, l.pre.bank)}

(* C20: a sweep settles each due row on its own: when the write of one
   settlement throws, the error is caught and the loop goes on, so every
   other due row the loop has come to, of this and of every other user, is
   settled, and the task reaches its end. *)
C20_SettleIndependent ==
    \A p \in DOMAIN proc :
        LET l == proc[p]
        IN l.op = "sweep" =>
              /\ Cardinality(Unsettled(l))
                    <= (IF l.error = "SettlementFailure" THEN 1 ELSE 0)
              /\ l.pc = "done" => l.success

(* the fixed row of user 1 could not be removed; the demand row of user 2,
   next in the snapshot, was settled to 401 *)
C20_Witness ==
    \E p \in DOMAIN proc :
        LET l == proc[p]
        IN /\ l.op = "sweep"
           /\ l.pc = "mg_select"
           /\ l.error = "SettlementFailure"
           /\ \E j, k \in Processed(l) :
                 /\ j < k
                 /\ j \in Unsettled(l)
                 /\ l.recs[j].row.uid = 1
                 /\ l.recs[k].row.uid = 2
                 /\ l.recs[k].row.settlementDate <= l.today
                 /\ l.recs[k].row.amount = 400
                 /\ bank[l.recs[k].id].amount = 401


(* The key class of row i of table b0 has been merged: its rows are gone and
   exactly one new demand row carries the key and the summed amount *)
ClassMerged(b0, i) ==
    LET created == {j \in DOMAIN bank \ DOMAIN b0 : SameKey(bank[j], b0[i])}
    IN /\ \A k \in KeyClass(b0, i) : k \notin DOMAIN bank
       /\ Cardinality(created) = 1
       /\ \A j \in created :
             /\ bank[j].type = "demand"
             /\ bank[j].amount = Principal(b0, KeyClass(b0, i))

(* The groups of more than one row that mergeDemandRecords found and did not
   merge, each named by its rows *)
Unmerged(b0) ==
    {KeyClass(b0, i) :
        i \in {k \in AllDemand(b0) :
                  Cardinality(KeyClass(b0, k)) > 1 /\ ~ClassMerged(b0, k)}}

(* C21: a remove or a create that throws while one group is merged does not
   keep mergeDemandRecords from the other groups: with one failing write, at
   the end of the run at most the group of that write is left unmerged and
   every other group of more than one row has become a single row. *)
C21_MergeIndependent ==
    \A p \in DOMAIN proc :
        Compacted(p) =>
            Cardinality(Unmerged(proc[p].before)) <= 1 - faults

(* two groups were found; the first remove for the coin group threw, and the
   gem group, which came after it, is one row of 100 *)
C21_Witness ==
    \E p \in DOMAIN proc :
        /\ Compacted(p)
        /\ Len(proc[p].groups) = 2
        /\ Cardinality(Unmerged(proc[p].before)) = 1
        /\ proc[p].groups[1].ids[1] \in DOMAIN bank
        /\ \E j \in DOMAIN bank \ DOMAIN proc[p].before :
              /\ bank[j].currency = "gem"
              /\ bank[j].amount = 100


(* C22: with demand interest disabled, settling a matured fixed row without
   an extension request removes the row and writes nothing else: no row is
   created, no other row and no cash balance changes, so the owner's cash
   plus total bank principal is lower by the row's amount. *)
C22_DisabledDropsFixed ==
    \A p \in DOMAIN proc :
        LET l == proc[p]
            r == l.record.row
            cash0 == CashOrZero(l.pre.monetary, r.uid, r.currency)
            cash1 == CashOrZero(monetary, r.uid, r.currency)
        IN (Settled(p) /\ r.type = "fixed" /\ ~r.extendRequested
               /\ ~config.enabled) =>
              /\ l.before[l.record.id] = r
              /\ DOMAIN bank = DOMAIN l.before \ {l.record.id}
              /\ \A i \in DOMAIN bank : bank[i] = l.before[i]
              /\ monetary = l.pre.monetary
              /\ cash1 + BankTotal(bank, r.uid, r.currency)
                    = cash0 + BankTotal(l.before, r.uid, r.currency) - r.amount

(* the fixed row of 1000 is gone and the user is left with the demand row of
   200 *)
C22_Witness ==
    \E p \in DOMAIN proc :
        /\ Settled(p)
        /\ ~config.enabled
        /\ proc[p].record.row.type = "fixed"
        /\ ~proc[p].record.row.extendRequested
        /\ proc[p].record.row.amount = 1000
        /\ proc[p].record.id \notin DOMAIN bank
        /\ BankTotal(proc[p].before, 1, "coin") = 1200
        /\ BankTotal(bank, 1, "coin") = 200


(* C23: an extension request is written for a fixed row of the caller whose
   extendRequested is FALSE; it sets extendRequested = TRUE and nextRate,
   nextCycle to the chosen plan, and leaves amount, rate, cycle and
   settlementDate of the row, and every other row, as they were. *)
C23_RequestExtension ==
    \A p \in DOMAIN proc :
        LET l == proc[p]
            id == l.record.id
            b0 == l.pre.bank
        IN (Succeeded(p, "manage") /\ l.plan > 0) =>
              /\ id \in DOMAIN b0 /\ id \in DOMAIN bank
              /\ b0[id].type = "fixed"
              /\ b0[id].uid = l.uid
              /\ b0[id].extendRequested = FALSE
              /\ DOMAIN bank = DOMAIN b0
              /\ \A i \in DOMAIN bank \ {id} : bank[i] = b0[i]
              /\ bank[id].extendRequested = TRUE
              /\ bank[id].nextRate = fixedInterest[l.plan].rate
              /\ bank[id].nextCycle = fixedInterest[l.plan].cycle
              /\ bank[id].amount = b0[id].amount
              /\ bank[id].rate = b0[id].rate
              /\ bank[id].cycle = b0[id].cycle
              /\ bank[id].settlementDate = b0[id].settlementDate
              /\ bank[id].type = "fixed"

(* the month plan is requested for the fixed row of 1000 at 5 % / week *)
C23_Witness ==
    \E p \in DOMAIN proc :
        /\ Succeeded(p, "manage")
        /\ proc[p].plan = 2
        /\ bank[proc[p].record.id].extendRequested
        /\ bank[proc[p].record.id].nextRate = 5000
        /\ bank[proc[p].record.id].nextCycle = "month"
        /\ bank[proc[p].record.id].rate = 500
        /\ bank[proc[p].record.id].cycle = "week"
        /\ bank[proc[p].record.id].amount = 1000

(* C24: a cancellation is written for a fixed row whose extendRequested is
   TRUE; it clears extendRequested, nextRate and nextCycle and changes
   nothing else; a cancellation that directly follows the request for the
   same row leaves the row as it was before the request; and the sweep that
   settles a row after its cancellation removes it instead of extending it,
   creating the demand row when demand interest is enabled. *)
C24_CancelExtension ==
    \A p \in DOMAIN proc :
        LET l == proc[p]
            id == l.record.id
            b0 == l.pre.bank
        IN /\ (Succeeded(p, "manage") /\ l.plan = 0) =>
                 /\ id \in DOMAIN b0 /\ id \in DOMAIN bank
                 /\ b0[id].type = "fixed"
                 /\ b0[id].extendRequested = TRUE
                 /\ DOMAIN bank = DOMAIN b0
                 /\ \A i \in DOMAIN bank \ {id} : bank[i] = b0[i]
                 /\ bank[id] = [b0[id] EXCEPT !.extendRequested = FALSE,
                                              !.nextRate = NoRate,
                                              !.nextCycle = NoCycle]
                 /\ (prev.op = "extend" /\ prev.record.id = id)
                       => bank[id] = prev.record.row
           /\ (Settled(p) /\ prev.op = "cancel" /\ prev.record.id = id) =>
                 /\ id \notin DOMAIN bank
                 /\ Cardinality({i \in DOMAIN bank \ DOMAIN l.before :
                                    bank[i].type = "demand"})
                       = IF config.enabled THEN 1 ELSE 0

(* request, then cancellation: the row of 1000 is as it was at the start *)
C24_Witness ==
    \E p \in DOMAIN proc :
        /\ Succeeded(p, "manage")
        /\ proc[p].plan = 0
        /\ prev.op = "extend"
        /\ prev.record.id = proc[p].record.id
        /\ bank[proc[p].record.id] = prev.record.row
        /\ prev.record.row.amount = 1000
        /\ proc[p].pre.bank[proc[p].record.id].nextRate \in {435, 5000}

(* cancellation, then the sweep of the day the row is due: the row is
   converted to a demand row of 1050 *)
C24_WitnessConverted ==
    \E p \in DOMAIN proc :
        /\ Settled(p)
        /\ prev.op = "cancel"
        /\ prev.record.id = proc[p].record.id
        /\ proc[p].record.id \notin DOMAIN bank
        /\ \E i \in DOMAIN bank \ DOMAIN proc[p].before :
              bank[i].type = "demand" /\ bank[i].amount = 1050


(* C25: a request or cancellation that reports success found, at the time
   of its write, the selected id in the table, as a fixed row of the caller,
   in the state the operation applies to (not requested for a request,
   requested for a cancellation).  Violated: see C25 in the results. *)
C25_ManageChecksAtWrite ==
    \A p \in DOMAIN proc :
        LET l == proc[p]
            id == l.record.id
        IN Succeeded(p, "manage") =>
              /\ id \in DOMAIN l.before
              /\ l.before[id].type = "fixed"
              /\ l.before[id].uid = l.uid
              /\ l.before[id].extendRequested = (l.plan = 0)


(* C28: no demand row has extendRequested = TRUE or a pending nextRate or
   nextCycle, whether it was there at the start, or was created by the
   conversion of a fixed row or by the merge, and also after a request or
   cancellation was written for a fixed row the sweep had converted since
   it was selected. *)
C28_DemandHasNoExtension ==
    \A i \in DOMAIN bank :
        bank[i].type = "demand" =>
            /\ bank[i].extendRequested = FALSE
            /\ bank[i].nextRate = NoRate
            /\ bank[i].nextCycle = NoCycle

(* a request was written for the row of 1000 after the sweep had converted
   it to a demand row of 1050 *)
C28_Witness ==
    \E p \in DOMAIN proc :
        /\ Succeeded(p, "manage")
        /\ proc[p].plan > 0
        /\ proc[p].record.id \in DOMAIN proc[p].pre.bank
        /\ proc[p].record.id \notin DOMAIN proc[p].before
        /\ \E i \in DOMAIN bank \ DOMAIN proc[p].pre.bank :
              bank[i].type = "demand" /\ bank[i].amount = 1050


(* The currencies the tables hold *)
BalanceKeys == Users \X {"coin", "gem"}

(* C26: in every state getBalance(uid, currency) returns demand = the sum of
   amount over exactly the demand rows of that user and currency, fixed =
   the sum over exactly its fixed rows, total = demand + fixed, both sums
   >= 0, and {0, 0, 0} when the key has no rows; and every step in which a
   handler stores the result of getBalance leaves the bank table, the cash
   table, the id counter and the configuration unchanged. *)
C26_GetBalance ==
    /\ [](\A k \in BalanceKeys :
            LET r == getBankBalance(bank, k[1], k[2])
                own == {i \in DOMAIN bank : bank[i].uid = k[1]
                                            /\ bank[i].currency = k[2]}
            IN /\ r.demand = DemandTotal(bank, k[1], k[2])
               /\ r.fixed = FixedTotal(bank, k[1], k[2])
               /\ r.total = r.demand + r.fixed
               /\ r.demand >= 0 /\ r.fixed >= 0
               /\ own = {} => r = [total |-> 0, demand |-> 0, fixed |-> 0])
    /\ [][\A p \in DOMAIN proc :
            (proc'[p].pc # "idle" /\ proc'[p].newBalance # proc[p].newBalance)
               => /\ UNCHANGED <<bank, monetary, nextId, config>>
                  /\ proc'[p].newBalance =
                       [total |-> BankTotal(bank, proc[p].uid, proc[p].currency),
                        demand |-> DemandTotal(bank, proc[p].uid, proc[p].currency),
                        fixed |-> FixedTotal(bank, proc[p].uid, proc[p].currency)]
         ]_vars

(* after a withdraw of 40, getBalance of user 1 is 160 demand and 1000
   fixed; the 400 of user 2 are not counted *)
C26_Witness ==
    \E p \in DOMAIN proc :
        /\ Succeeded(p, "withdraw")
        /\ proc[p].uid = 1
        /\ proc[p].newBalance = [total |-> 1160, demand |-> 160, fixed |-> 1000]
        /\ \E i \in DOMAIN bank : bank[i].uid = 2 /\ bank[i].amount = 400
        /\ getBankBalance(bank, 2, "gem") = [total |-> 0, demand |-> 0, fixed |-> 0]


(* C27: every row of the bank table has amount > 0 in every reachable state:
   no deposit, withdraw, fixed term, settlement or merge stores a row of
   amount 0 or less; a row consumed to 0 is removed. *)
C27_PositivePrincipal ==
    \A i \in DOMAIN bank : bank[i].amount > 0

(* a withdraw of 40 consumed a demand row of exactly 40, which is gone *)
C27_Witness ==
    \E p \in DOMAIN proc :
        /\ Succeeded(p, "withdraw")
        /\ proc[p].amount = 40
        /\ \E i \in DOMAIN proc[p].pre.bank \ DOMAIN bank :
              /\ proc[p].pre.bank[i].amount = 40
              /\ proc[p].pre.bank[i].type = "demand"
        /\ DOMAIN bank \subseteq DOMAIN proc[p].pre.bank

(* a fixed term was funded from demand rows of which at least one was
   consumed whole and removed *)
C27_WitnessFixed ==
    \E p \in DOMAIN proc :
        /\ Succeeded(p, "fixed")
        /\ Cardinality(DOMAIN proc[p].pre.bank \ DOMAIN bank) >= 1
        /\ \E i \in DOMAIN bank \ DOMAIN proc[p].pre.bank :
              bank[i].type = "fixed" /\ bank[i].amount = proc[p].amount


(* C29: fixed principal is locked until maturity: a step that removes a
   fixed row, or changes its amount or its type, is the settlement of that
   very row by the sweep, and the row's settlementDate is on or before the
   day of the sweep; no step of deposit, withdraw, fixed-term funding,
   extension management or merge does it. *)
C29_FixedLocked ==
    [][\A i \in DOMAIN bank :
         (/\ bank[i].type = "fixed"
          /\ \/ i \notin DOMAIN bank'
             \/ bank'[i].amount # bank[i].amount
             \/ bank'[i].type # "fixed")
         => \E p \in DOMAIN proc :
               /\ proc[p].op = "sweep"
               /\ proc[p].pc = "s_settle"
               /\ proc[p].recs[proc[p].idx].id = i
               /\ bank[i].settlementDate <= proc[p].today
      ]_vars

(* a withdraw of 120 succeeded from demand rows while the user's fixed row
   of 1000, already due, is as it was *)
C29_Witness ==
    \E p \in DOMAIN proc :
        /\ Succeeded(p, "withdraw")
        /\ proc[p].amount = 120
        /\ \E i \in DOMAIN bank :
              /\ bank[i].type = "fixed"
              /\ bank[i].uid = proc[p].uid
              /\ bank[i].amount = 1000
              /\ bank[i].settlementDate <= now
              /\ bank[i] = proc[p].pre.bank[i]


(* C30: a deposit is atomic to concurrent readers: when the bank command of
   a user has read the bank balance and the cash from one and the same
   state of the tables while a deposit of that user is in progress, the
   cash plus the total bank balance it shows is not lower than before the
   deposit.  Violated: see C30 in the results. *)
C30_DepositAtomicToReaders ==
    \A r, d \in DOMAIN proc :
        LET l == proc[r]
            dep == proc[d]
        IN (/\ Finished(r, "home")
            /\ l.before = l.pre.bank
            /\ l.newCash = CashOrZero(l.pre.monetary, l.uid, l.currency)
            /\ dep.op = "deposit" /\ dep.pc # "idle"
            /\ dep.uid = l.uid /\ dep.currency = l.currency)
           => l.newCash + l.newBalance.total
                 >= CashOrZero(dep.pre.monetary, dep.uid, dep.currency)
                    + BankTotal(dep.pre.bank, dep.uid, dep.currency)


(* The cycle lengths the T+1 rule is stated with *)
CycleLength(cycle) ==
    IF cycle = "day" THEN 1 ELSE IF cycle = "week" THEN 7 ELSE 30

(* C31: the row a deposit or a new fixed term creates is due on the day of
   creation + 1 day + one cycle (1, 7 or 30 days); the sweep settles only a
   row that is due on or before its day, and a row it re-dates or creates
   by conversion is due on the sweep day + one cycle, with no extra day.
   So a row created on day d is not settled before d + 1 + one cycle. *)
C31_SettlementDates ==
    \A p \in DOMAIN proc :
        LET l == proc[p]
            created == DOMAIN bank \ DOMAIN l.pre.bank
        IN /\ (Succeeded(p, "deposit") \/ Succeeded(p, "fixed")) =>
                 /\ created # {}
                 /\ \A i \in created :
                       /\ bank[i].cycle \in {"day", "week", "month"}
                       /\ bank[i].settlementDate
                             = l.pre.day + 1 + CycleLength(bank[i].cycle)
           /\ Settled(p) =>
                 /\ l.record.row.settlementDate <= l.today
                 /\ l.record.id \in DOMAIN bank =>
                       bank[l.record.id].settlementDate
                          = l.today + CycleLength(bank[l.record.id].cycle)
                 /\ \A i \in DOMAIN bank \ DOMAIN l.before :
                       bank[i].settlementDate
                          = l.today + CycleLength(bank[i].cycle)

(* a fixed term on the month plan opened on day 1 is due on day 32 *)
C31_Witness ==
    \E p \in DOMAIN proc :
        /\ Succeeded(p, "fixed")
        /\ proc[p].pre.day = 1
        /\ \E i \in DOMAIN bank \ DOMAIN proc[p].pre.bank :
              /\ bank[i].cycle = "month"
              /\ bank[i].settlementDate = 32

(* a deposit made on day 0 under the weekly configuration is due on day 8 *)
C31_WitnessDeposit ==
    \E p \in DOMAIN proc :
        /\ Succeeded(p, "deposit")
        /\ proc[p].pre.day = 0
        /\ \E i \in DOMAIN bank \ DOMAIN proc[p].pre.bank :
              /\ bank[i].cycle = "week"
              /\ bank[i].settlementDate = 8

(* the sweep of day 1 re-dated a daily demand row to day 2 *)
C31_WitnessRedated ==
    \E p \in DOMAIN proc :
        /\ Settled(p)
        /\ proc[p].today = 1
        /\ proc[p].record.id \in DOMAIN bank
        /\ bank[proc[p].record.id].type = "demand"
        /\ bank[proc[p].record.id].settlementDate = 2


(* C32: the demand row a deposit creates carries the configured demand rate
   and cycle, for every configured rate >= 0: the rate and cycle a demand
   row created by the conversion of a fixed row carries under the same
   configuration.  Violated: see C32 in the results. *)
C32_DepositCarriesConfig ==
    \A p \in DOMAIN proc :
        Succeeded(p, "deposit") =>
            \A i \in DOMAIN bank \ DOMAIN proc[p].pre.bank :
                /\ bank[i].rate = config.rate
                /\ bank[i].cycle = config.cycle


(* C33: mergeDemandRecords is called after the whole settlement loop of the
   run: when it is about to start, the loop has passed the last row of the
   snapshot and every due row has been settled, but for the one whose write
   threw; it is called also after a settlement that failed; and when no
   write of the merge threw, the run ends with no two demand rows sharing a
   key, the demand rows the run's conversions created included. *)
C33_CompactionAfterSweep ==
    \A p \in DOMAIN proc :
        LET l == proc[p]
        IN /\ (l.op = "sweep" /\ l.pc = "mg_select") =>
                 /\ l.idx = Len(l.recs) + 1
                 /\ \A k \in 1..Len(l.recs) :
                       l.recs[k].id \in DOMAIN l.pre.bank
                 /\ Cardinality(DOMAIN l.pre.bank) = Len(l.recs)
                 /\ Cardinality(Unsettled(l))
                       <= (IF l.error = "SettlementFailure" THEN 1 ELSE 0)
           /\ (Compacted(p) /\ (faults = 1 \/ l.error = "SettlementFailure")) =>
                 /\ l.success
                 /\ Unmerged(l.before) = {}
                 /\ \A i, j \in AllDemand(bank) :
                       i # j => ~SameKey(bank[i], bank[j])

(* the sweep of day 0 converted the fixed row of 1000 to a demand row of
   1050, and the merge of the same run joined it with the row of 200 *)
C33_Witness ==
    \E p \in DOMAIN proc :
        LET l == proc[p]
        IN /\ Compacted(p)
           /\ \E c \in DOMAIN l.before \ DOMAIN l.pre.bank :
                 /\ l.before[c].type = "demand"
                 /\ l.before[c].amount = 1050
                 /\ c \notin DOMAIN bank
           /\ \E j \in DOMAIN bank \ DOMAIN l.before :
                 bank[j].type = "demand" /\ bank[j].amount = 1250

(* the settlement of one row threw, and the merge of the same run still
   joined the rows of 40 and 20 *)
C33_WitnessFailed ==
    \E p \in DOMAIN proc :
        LET l == proc[p]
        IN /\ Compacted(p)
           /\ l.error = "SettlementFailure"
           /\ \E j \in DOMAIN bank \ DOMAIN l.before :
                 bank[j].type = "demand" /\ bank[j].amount = 60


(* C34: the cash adjustment fails rather than let a balance go negative: no
   stored cash balance is ever below 0, under every interleaving of
   deposits, withdraws and fixed terms of two sessions; and the step of
   changeMonetary that finds current + delta < 0 returns null to its caller
   and leaves the cash table as it is. *)
C34_CashNeverNegative ==
    /\ [](\A k \in DOMAIN monetary : monetary[k] >= 0)
    /\ [][\A p \in DOMAIN proc :
            LET l == proc[p]
            IN (/\ l.pc = "cm_find"
                /\ proc'[p] # l
                /\ <<l.uid, l.currency>> \in DOMAIN monetary
                /\ monetary[<<l.uid, l.currency>>] + l.cmDelta < 0)
               => /\ proc'[p].pc = l.ret
                  /\ proc'[p].newCash = Null
                  /\ monetary' = monetary
         ]_vars

(* two deposits of 40 both passed the funds check on cash 50; the first
   debit left 10 and the second was refused *)
C34_Witness ==
    \E p \in DOMAIN proc :
        /\ Finished(p, "deposit")
        /\ ~proc[p].success
        /\ proc[p].amount = 40
        /\ proc[p].newCash = Null
        /\ proc[p].cmDelta = -40
        /\ proc[p].pre.monetary[<<1, "coin">>] = 50
        /\ monetary[<<1, "coin">>] = 10


(* C35: two overlapping withdraws of one user and currency cannot spend the
   same principal twice: when both have returned, the amounts credited by
   those that report success add up to what their writes took out of the
   demand rows, and to no more than the demand total before the first of
   them.  Violated: see C35 in the results. *)
C35_NoDoubleSpend ==
    \A p, q \in DOMAIN proc :
        LET a == proc[p]
            b == proc[q]
            Credited(l) == IF l.success THEN l.amount ELSE 0
        IN (/\ p # q
            /\ Finished(p, "withdraw") /\ Finished(q, "withdraw")
            /\ a.uid = b.uid /\ a.currency = b.currency)
           => /\ Credited(a) + Credited(b) = a.removed + b.removed
              /\ \/ Credited(a) + Credited(b)
                       <= DemandTotal(a.pre.bank, a.uid, a.currency)
                 \/ Credited(a) + Credited(b)
                       <= DemandTotal(b.pre.bank, b.uid, b.currency)

(* C36: a fixed term creates no value: the amount of the fixed row a
   successful bank.fixed creates is no more than what its own writes took
   from the user's cash and from the demand rows, whatever another session
   does between its funds check, its prompt and its writes.  Violated: see
   C36 in the results. *)
C36_FixedCreatesNoValue ==
    \A p \in DOMAIN proc :
        Succeeded(p, "fixed") =>
            proc[p].amount <= proc[p].debited + proc[p].removed

(* The bookkeeping of removed and debited agrees with the tables when one
   handler runs at a time *)
HistoryAgrees ==
    mode = "seq" =>
        \A p \in DOMAIN proc :
            LET l == proc[p]
            IN /\ Succeeded(p, "withdraw") =>
                     /\ l.removed = l.amount
                     /\ l.removed = DemandTotal(l.pre.bank, l.uid, l.currency)
                                       - DemandTotal(bank, l.uid, l.currency)
               /\ Succeeded(p, "fixed") =>
                     /\ l.debited + l.removed = l.amount
                     /\ l.debited = CashOrZero(l.pre.monetary, l.uid, l.currency)
                                       - CashOrZero(monetary, l.uid, l.currency)
                     /\ l.removed = DemandTotal(l.pre.bank, l.uid, l.currency)
                                       - DemandTotal(bank, l.uid, l.currency)


(* C37: the remove-then-create steps of the sweep neither lose nor duplicate
   principal when a write throws: after settleInterest, with demand
   interest enabled, the owner's total bank principal is what it was before
   the call, or that plus the interest of the settled row; and after
   mergeDemandRecords every user's total bank principal is what it was
   before the merge.  Violated: see C37 in the results. *)
C37_EngineKeepsPrincipal ==
    \A p \in DOMAIN proc :
        LET l == proc[p]
            r == l.record.row
            t0 == BankTotal(l.before, r.uid, r.currency)
            t1 == BankTotal(bank, r.uid, r.currency)
        IN /\ (/\ l.op = "sweep" /\ l.pc = "s_next" /\ l.record.id # 0
                /\ config.enabled)
              => \/ t1 = t0
                 \/ t1 = t0 + (r.amount * r.rate) \div 10000
           /\ Compacted(p) =>
                 \A k \in BalanceKeys :
                    BankTotal(bank, k[1], k[2]) = BankTotal(l.before, k[1], k[2])


(* C38: a row is settled at most once a day: when a sweep of day D has ended
   with no failed write, no row is due on or before D; a row that was not
   due when the sweep began is as it was, or is a demand row that the merge
   replaced by a row of the same key; and a sweep that directly follows a
   sweep of the same day settles no row and leaves the table as it is. *)
C38_OncePerDay ==
    \A p \in DOMAIN proc :
        LET l == proc[p]
            b0 == l.pre.bank
        IN Compacted(p) =>
              /\ \A i \in DOMAIN bank : bank[i].settlementDate > l.today
              /\ \A i \in DOMAIN b0 :
                    b0[i].settlementDate > l.today =>
                       \/ i \in DOMAIN bank /\ bank[i] = b0[i]
                       \/ /\ i \notin DOMAIN bank
                          /\ b0[i].type = "demand"
                          /\ \E j \in DOMAIN bank \ DOMAIN b0 :
                                /\ bank[j].type = "demand"
                                /\ SameKey(bank[j], b0[i])
                                /\ bank[j].amount > b0[i].amount
              /\ (prev.op = "sweep" /\ prev.day = l.today) =>
                    /\ l.record = NoRecord
                    /\ bank = b0

(* the sweep of day 0 settled the row of 30 due on day 0, left the row of
   20 due on day 2 as it was, and merged the settled row with the row of
   50, not due, that has the same key *)
C38_Witness ==
    \E p \in DOMAIN proc :
        LET l == proc[p]
        IN /\ Compacted(p)
           /\ l.today = 0
           /\ \E i \in DOMAIN l.pre.bank :
                 /\ l.pre.bank[i].settlementDate = 2
                 /\ i \in DOMAIN bank /\ bank[i] = l.pre.bank[i]
           /\ \E j \in DOMAIN l.pre.bank :
                 /\ l.pre.bank[j].settlementDate = 0
                 /\ l.pre.bank[j].amount = 30
           /\ \E k \in DOMAIN bank \ DOMAIN l.pre.bank :
                 bank[k].amount = 80 /\ bank[k].settlementDate = 1

(* a second sweep on day 0 found nothing due: the row the first had
   settled is not settled again *)
C38_WitnessSecond ==
    \E p \in DOMAIN proc :
        LET l == proc[p]
        IN /\ Compacted(p)
           /\ prev.op = "sweep" /\ prev.day = l.today
           /\ l.record = NoRecord
           /\ \E i \in DOMAIN bank :
                 bank[i].type = "fixed" /\ bank[i].amount = 1050


(* C39: with demandInterest.enabled = FALSE no sweep increases the amount of
   a demand row: the settlement of a due demand row leaves its amount as it
   was.  Violated: see C39 in the results. *)
C39_DisabledNoDemandInterest ==
    \A p \in DOMAIN proc :
        LET l == proc[p]
        IN (/\ Settled(p)
            /\ ~config.enabled
            /\ l.record.row.type = "demand"
            /\ l.record.id \in DOMAIN bank)
           => bank[l.record.id].amount <= l.record.row.amount

====
